---- MODULE Spec2Model ----
(***************************************************************************)
(* Model of ml/scripts/extract_features.py: HandFeatureExtractor.extract   *)
(* and its stages.                                                         *)
(*                                                                         *)
(* Numbers.  The code computes on floats; the model computes the same      *)
(* expressions in exact real arithmetic on a lattice of inputs.  One       *)
(* lattice unit is U = 2e-6 / TwoEps with TwoEps odd, so the code's        *)
(* threshold 1e-6 is TwoEps / 2 units: both sides of each `< 1e-6` test    *)
(* are reachable with small integers, and no length between lattice points *)
(* (the square root of an integer, in units) is the threshold itself or    *)
(* within float rounding of it; on the lattice the float comparison and    *)
(* the exact one take the same branch.  Three exact encodings are used:    *)
(*   coordinate  [n, p, e]       the real  n / sqrt(p) * U^e               *)
(*   magnitude   [sq, p, e]      the real  sqrt(sq / p) * U^e   (>= 0)     *)
(*   cosine      [sgn, num, den] the real  sgn * sqrt(num / den)           *)
(* p = 0 (den = 0) encodes a non-finite float (inf or nan), the result of  *)
(* a division by zero.  Magnitudes and cosines are kept in lowest terms,   *)
(* so two encodings are equal exactly when the reals are equal.  An angle  *)
(* is the magnitude Zero (the float 0.0) or [acos |-> c], the real         *)
(* arccos(c) of a cosine c # 1; arccos is injective on [-1, 1].            *)
(*                                                                         *)
(* The rounding of the doubles themselves is computed, bit for bit, in     *)
(* the section on IEEE 754 binary64 and the specification SpecDoubles, for *)
(* the statements about the double a call returns.                         *)
(*                                                                         *)
(* Arrays are functions on 0..n-1, so indices are the source's indices.    *)
(***************************************************************************)
EXTENDS Integers, FiniteSets, Sequences, TLC

\* ---------------------------------------------------------------- bounds
\* 1e-6 is UnitsPerEps - 1/2 lattice units: input coordinate n stands for
\* n * 2e-6 / TwoEps
UnitsPerEps == 2
\* translation offsets tried have components in -MaxOffset..MaxOffset
MaxOffset == 1
\* scale factors tried are 1..MaxScale
MaxScale == 3

\* the threshold 1e-6 in half lattice units, an odd number
TwoEps == 2 * UnitsPerEps - 1

\* ------------------------------------------------------ program constants
\* 1 / 1e-6, the reciprocal of the threshold of both clamps
EpsInv == 1000000

WRIST == 0
THUMB_TIP == 4
INDEX_TIP == 8
MIDDLE_TIP == 12
RING_TIP == 16
PINKY_TIP == 20
\* landmarks[9], the middle finger MCP
MIDDLE_MCP == 9

\* ---------------------------------------------------------------- arrays
ALen(a) == Cardinality(DOMAIN a)

Arr(s) == [i \in 0..(Len(s) - 1) |-> s[i + 1]]

AConcat(a, b) ==
    LET n == ALen(a)
    IN  [i \in 0..(n + ALen(b) - 1) |-> IF i < n THEN a[i] ELSE b[i - n]]

THUMB == Arr(<<1, 2, 3, 4>>)
INDEX == Arr(<<5, 6, 7, 8>>)
MIDDLE == Arr(<<9, 10, 11, 12>>)
RING == Arr(<<13, 14, 15, 16>>)
PINKY == Arr(<<17, 18, 19, 20>>)

FINGERS == Arr(<<THUMB, INDEX, MIDDLE, RING, PINKY>>)
FINGER_TIPS == Arr(<<THUMB_TIP, INDEX_TIP, MIDDLE_TIP, RING_TIP, PINKY_TIP>>)

\* ------------------------------------------------------------ arithmetic
Sign(x) == IF x < 0 THEN -1 ELSE IF x = 0 THEN 0 ELSE 1

RECURSIVE GCD(_, _)
GCD(a, b) == IF b = 0 THEN a ELSE GCD(b, a % b)

CeilDiv(a, b) == (a + b - 1) \div b

\* the float 0.0 and the float 1.0
Zero == [sq |-> 0, p |-> 1, e |-> 0]
One == [sq |-> 1, p |-> 1, e |-> 0]
\* a non-finite float
NaN == [sq |-> 0, p |-> 0, e |-> 0]

\* the magnitude sqrt(sq / p) * U^e in lowest terms
Mag(sq, p, e) ==
    IF p = 0 THEN NaN
    ELSE IF sq = 0 THEN Zero
    ELSE LET g == GCD(sq, p) IN [sq |-> sq \div g, p |-> p \div g, e |-> e]

\* an input coordinate: n lattice units
Coord(n) == [n |-> n, p |-> 1, e |-> 1]

\* x - y for coordinates of one array (same p and e)
CSub(x, y) == [n |-> x.n - y.n, p |-> x.p, e |-> x.e]

\* elementwise v - w of two points
VSub(v, w) == [j \in DOMAIN v |-> CSub(v[j], w[j])]

RECURSIVE SumProd(_, _, _)
SumProd(v, w, k) == IF k = 0 THEN 0 ELSE v[k - 1].n * w[k - 1].n + SumProd(v, w, k - 1)

\* np.linalg.norm of a point
Norm(v) == Mag(SumProd(v, v, ALen(v)), v[0].p, v[0].e)

\* np.dot of two points: the real n / p * U^e
Dot(v, w) == [n |-> SumProd(v, w, ALen(v)), p |-> v[0].p, e |-> 2 * v[0].e]

\* m < 1e-6 for a magnitude m; a comparison with nan or inf is False
LtEps(m) ==
    IF m.p = 0 THEN FALSE
    ELSE IF m.e = 0 THEN m.sq < CeilDiv(CeilDiv(m.p, EpsInv), EpsInv)
    ELSE IF m.e = 1 THEN 4 * m.sq < TwoEps * TwoEps * m.p
    ELSE ((16 * m.sq) \div EpsInv) \div EpsInv
            < TwoEps * TwoEps * TwoEps * TwoEps * m.p

\* x / d for a coordinate x and a magnitude d = sqrt(d.sq) * U^(d.e)
CDiv(x, d) ==
    IF d.p = 0 THEN [n |-> x.n, p |-> 0, e |-> 0]
    ELSE [n |-> x.n, p |-> x.p * d.sq, e |-> x.e - d.e]

\* m1 * m2 for magnitudes
MagMul(m1, m2) == Mag(m1.sq * m2.sq, m1.p * m2.p, m1.e + m2.e)

\* the cosine sgn * sqrt(num / den) in lowest terms
Cos(sgn, num, den) ==
    IF den = 0 THEN [sgn |-> 0, num |-> 0, den |-> 0]
    ELSE IF num = 0 \/ sgn = 0 THEN [sgn |-> 0, num |-> 0, den |-> 1]
    ELSE LET g == GCD(num, den) IN [sgn |-> sgn, num |-> num \div g, den |-> den \div g]

\* d / m for a dot product d = n / p * U^e and a magnitude m of the same
\* power of U: sgn(n) * sqrt((n^2 / m.sq) * (m.p / p^2))
DotDiv(d, m) ==
    IF d.p = 0 \/ m.p = 0 \/ m.sq = 0 THEN Cos(0, 0, 0)
    ELSE LET a == Mag(d.n * d.n, m.sq, 0)
             b == Mag(m.p, d.p * d.p, 0)
             g1 == GCD(a.sq, b.p)
             g2 == GCD(b.sq, a.p)
         IN  Cos(Sign(d.n), (a.sq \div g1) * (b.sq \div g2),
                            (a.p \div g2) * (b.p \div g1))

\* np.clip(c, -1.0, 1.0); nan stays nan
Clip(c) == IF c.den # 0 /\ c.num > c.den THEN Cos(c.sgn, 1, 1) ELSE c

\* np.arccos(c) for c in [-1, 1]; arccos(1.0) is the float 0.0
Arccos(c) ==
    IF c.den = 0 THEN NaN
    ELSE IF c.sgn = 1 /\ c.num = c.den THEN Zero
    ELSE [acos |-> c]

\* the angles pi/2 and pi
HalfPi == [acos |-> Cos(0, 0, 1)]
Pi == [acos |-> Cos(-1, 1, 1)]

\* ------------------------------------------------------------ the stages
\* mutant: the subtraction done in place through a view of row 0, so that
\* the wrist is zeroed first and the other rows lose nothing
normalize_translation_aliased(landmarks) ==
    [i \in DOMAIN landmarks |->
        IF i = WRIST THEN VSub(landmarks[i], landmarks[WRIST]) ELSE landmarks[i]]

\* mutant: the wrong row (1, the thumb MCP) taken for the wrist
normalize_translation_wrong_row(landmarks) ==
    [i \in DOMAIN landmarks |-> VSub(landmarks[i], landmarks[THUMB[0]])]

\* _normalize_translation: landmarks - landmarks[WRIST], broadcast over rows
normalize_translation(landmarks) ==
    [i \in DOMAIN landmarks |-> VSub(landmarks[i], landmarks[WRIST])]

\* mutant: the index finger MCP taken for the middle finger MCP
palm_size_of_index(landmarks) == Norm(VSub(landmarks[INDEX[0]], landmarks[WRIST]))

\* mutant: the palm measured from the wrist to the middle fingertip
palm_size_of_tip(landmarks) == Norm(VSub(landmarks[MIDDLE_TIP], landmarks[WRIST]))

\* the palm_size of line 78
palm_size_of(landmarks) == Norm(VSub(landmarks[MIDDLE_MCP], landmarks[WRIST]))

\* mutant: no clamp
palm_divisor_unclamped(landmarks) == palm_size_of(landmarks)

\* mutant: the test of line 81 inverted
palm_divisor_inverted(landmarks) ==
    LET palm_size == palm_size_of(landmarks)
    IN  IF LtEps(palm_size) THEN palm_size ELSE One

\* the divisor of line 84, after the clamp of lines 81-82
palm_divisor(landmarks) ==
    LET palm_size == palm_size_of(landmarks)
    IN  IF LtEps(palm_size) THEN One ELSE palm_size

\* mutant: the division left out
normalize_scale_none(landmarks) ==
    [i \in DOMAIN landmarks |->
        [j \in DOMAIN landmarks[i] |-> CDiv(landmarks[i][j], One)]]

\* _normalize_scale: landmarks / palm_size
normalize_scale(landmarks) ==
    LET palm_size == palm_divisor(landmarks)
    IN  [i \in DOMAIN landmarks |->
            [j \in DOMAIN landmarks[i] |-> CDiv(landmarks[i][j], palm_size)]]

\* mutant: the chain started at the finger's own MCP, the wrist left out
Joints_without_wrist(finger) == AConcat(Arr(<<finger[0]>>), finger)

\* joints = [WRIST] + finger
Joints(finger) == AConcat(Arr(<<WRIST>>), finger)

\* the 4 distances of one finger, proximal to distal
finger_joint_distances(landmarks, finger) ==
    LET joints == Joints(finger)
    IN  [i \in 0..(ALen(finger) - 1) |->
            Norm(VSub(landmarks[joints[i + 1]], landmarks[joints[i]]))]

RECURSIVE inter_joint_upto(_, _)
inter_joint_upto(landmarks, k) ==
    IF k = 0 THEN Arr(<<>>)
    ELSE AConcat(inter_joint_upto(landmarks, k - 1),
                 finger_joint_distances(landmarks, FINGERS[k - 1]))

\* _compute_inter_joint_distances
compute_inter_joint_distances(landmarks) ==
    inter_joint_upto(landmarks, ALen(FINGERS))

\* mutant: each fingertip measured from its finger's MCP
compute_fingertip_distances_from_mcp(landmarks) ==
    [f \in DOMAIN FINGER_TIPS |->
        Norm(VSub(landmarks[FINGER_TIPS[f]], landmarks[FINGERS[f][0]]))]

\* _compute_fingertip_distances
compute_fingertip_distances(landmarks) ==
    [f \in DOMAIN FINGER_TIPS |->
        Norm(VSub(landmarks[FINGER_TIPS[f]], landmarks[WRIST]))]

\* mutant: v1 taken from the MCP to the PIP
AngleV1_reversed(landmarks, finger) == VSub(landmarks[finger[1]], landmarks[finger[0]])

\* v1 = mcp - pip and v2 = dip - pip of one finger
AngleV1(landmarks, finger) == VSub(landmarks[finger[0]], landmarks[finger[1]])
AngleV2(landmarks, finger) == VSub(landmarks[finger[2]], landmarks[finger[1]])

\* mutant: `and` for `or` in line 144
angle_degenerate_and(landmarks, finger) ==
    /\ LtEps(Norm(AngleV1(landmarks, finger)))
    /\ LtEps(Norm(AngleV2(landmarks, finger)))

\* the test of line 144
angle_degenerate(landmarks, finger) ==
    \/ LtEps(Norm(AngleV1(landmarks, finger)))
    \/ LtEps(Norm(AngleV2(landmarks, finger)))

\* the divisor norm1 * norm2 of line 147
angle_divisor(landmarks, finger) ==
    MagMul(Norm(AngleV1(landmarks, finger)), Norm(AngleV2(landmarks, finger)))

\* the angle of one finger, lines 126-154
finger_angle(landmarks, finger) ==
    IF ALen(finger) >= 3
    THEN IF angle_degenerate(landmarks, finger)
         THEN Zero
         ELSE LET cos_angle ==
                      DotDiv(Dot(AngleV1(landmarks, finger), AngleV2(landmarks, finger)),
                             angle_divisor(landmarks, finger))
              IN  Arccos(Clip(cos_angle))
    ELSE Zero

\* mutant: a degenerate finger skipped instead of given 0.0
RECURSIVE finger_angles_skip_upto(_, _)
finger_angles_skip_upto(landmarks, k) ==
    IF k = 0 THEN Arr(<<>>)
    ELSE IF angle_degenerate(landmarks, FINGERS[k - 1])
    THEN finger_angles_skip_upto(landmarks, k - 1)
    ELSE AConcat(finger_angles_skip_upto(landmarks, k - 1),
                 Arr(<<finger_angle(landmarks, FINGERS[k - 1])>>))

compute_finger_angles_skip(landmarks) ==
    finger_angles_skip_upto(landmarks, ALen(FINGERS))

\* _compute_finger_angles
compute_finger_angles(landmarks) ==
    [f \in DOMAIN FINGERS |-> finger_angle(landmarks, FINGERS[f])]

\* the divisions of line 84: every coordinate by the one clamped palm_size
scale_divisions(landmarks) ==
    {[site |-> "scale", finger |-> -1, divisor |-> palm_divisor(landmarks)]}

\* the divisions of line 147: one for each finger that passes line 144
angle_divisions(landmarks) ==
    {[site |-> "angle", finger |-> f,
      divisor |-> angle_divisor(landmarks, FINGERS[f])] :
        f \in {g \in DOMAIN FINGERS : ~angle_degenerate(landmarks, FINGERS[g])}}

\* mutant: the middle fingertip taken for the index fingertip
compute_pinch_distance_middle(landmarks) ==
    Norm(VSub(landmarks[MIDDLE_TIP], landmarks[THUMB_TIP]))

\* _compute_pinch_distance
compute_pinch_distance(landmarks) ==
    Norm(VSub(landmarks[INDEX_TIP], landmarks[THUMB_TIP]))

\* mutant: the angle group put before the fingertip group
concatenate_swapped(ij, ft, ang, pinch) ==
    AConcat(AConcat(AConcat(ij, ang), ft), Arr(<<pinch>>))

\* np.concatenate of the four groups, lines 60-65
concatenate(ij, ft, ang, pinch) ==
    AConcat(AConcat(AConcat(ij, ft), ang), Arr(<<pinch>>))

\* extract as one function, for an input every stage accepts
extract(landmarks) ==
    LET scaled == normalize_scale(normalize_translation(landmarks))
    IN  concatenate(compute_inter_joint_distances(scaled),
                    compute_fingertip_distances(scaled),
                    compute_finger_angles(scaled),
                    compute_pinch_distance(scaled))

\* ------------------------------------------------- IEEE 754 binary64
\* The arrays of the code hold doubles.  This section computes the same
\* operations on doubles bit for bit, rounding to nearest, ties to even,
\* after every operation, for the claims that are about the double
\* returned and not about the real number it stands for.  Exponents are
\* unbounded: no value here is near overflow or the subnormal range.

\* the bits of the significand of a double
MantissaBits == 53

\* Natural numbers of any size: the limbs base 2^15, lowest first, without
\* a zero limb on top; <<>> is 0.
Limb == 2^15

RECURSIVE BTrim(_)
BTrim(a) ==
    IF a # <<>> /\ a[Len(a)] = 0 THEN BTrim(SubSeq(a, 1, Len(a) - 1)) ELSE a

RECURSIVE BFromInt(_)
BFromInt(n) == IF n = 0 THEN <<>> ELSE <<n % Limb>> \o BFromInt(n \div Limb)

RECURSIVE BAddC(_, _, _)
BAddC(a, b, c) ==
    IF a = <<>> /\ b = <<>> THEN (IF c = 0 THEN <<>> ELSE <<c>>)
    ELSE LET s == (IF a = <<>> THEN 0 ELSE a[1]) + (IF b = <<>> THEN 0 ELSE b[1]) + c
         IN  <<s % Limb>> \o BAddC(IF a = <<>> THEN a ELSE Tail(a),
                                   IF b = <<>> THEN b ELSE Tail(b), s \div Limb)

BAdd(a, b) == BAddC(a, b, 0)

\* a - b - c for a >= b + c, limb by limb
RECURSIVE BSubC(_, _, _)
BSubC(a, b, c) ==
    IF a = <<>> THEN <<>>
    ELSE LET s == a[1] - (IF b = <<>> THEN 0 ELSE b[1]) - c
         IN  <<s % Limb>> \o BSubC(Tail(a), IF b = <<>> THEN b ELSE Tail(b),
                                   IF s < 0 THEN 1 ELSE 0)

BSub(a, b) == BTrim(BSubC(a, b, 0))

\* -1, 0 or 1 as a < b, a = b or a > b
RECURSIVE BCmpAt(_, _, _)
BCmpAt(a, b, i) ==
    IF i = 0 THEN 0
    ELSE IF a[i] < b[i] THEN -1
    ELSE IF a[i] > b[i] THEN 1
    ELSE BCmpAt(a, b, i - 1)

BCmp(a, b) ==
    IF Len(a) < Len(b) THEN -1
    ELSE IF Len(a) > Len(b) THEN 1
    ELSE BCmpAt(a, b, Len(a))

\* a * k + c for 0 <= k, c < 2^15
RECURSIVE BMulSmall(_, _, _)
BMulSmall(a, k, c) ==
    IF a = <<>> THEN (IF c = 0 THEN <<>> ELSE <<c>>)
    ELSE LET s == a[1] * k + c
         IN  <<s % Limb>> \o BMulSmall(Tail(a), k, s \div Limb)

RECURSIVE BMulRaw(_, _)
BMulRaw(a, b) ==
    IF b = <<>> THEN <<>>
    ELSE BAdd(BMulSmall(a, b[1], 0), <<0>> \o BMulRaw(a, Tail(b)))

BMul(a, b) == BTrim(BMulRaw(a, b))

\* a * 2^k
BShl(a, k) ==
    IF a = <<>> THEN a
    ELSE [i \in 1..(k \div 15) |-> 0] \o BMulSmall(a, 2^(k % 15), 0)

\* a \div 2^k
BShr(a, k) ==
    LET drop == k \div 15
        r == k % 15
        n == Len(a) - drop
    IN  IF n <= 0 THEN <<>>
        ELSE BTrim([i \in 1..n |->
                      (a[drop + i] \div 2^r)
                      + (IF i < n THEN (a[drop + i + 1] % 2^r) * 2^(15 - r) ELSE 0)])

RECURSIVE IntBitLen(_)
IntBitLen(n) == IF n = 0 THEN 0 ELSE 1 + IntBitLen(n \div 2)

\* the number of bits of a
BBitLen(a) == IF a = <<>> THEN 0 ELSE 15 * (Len(a) - 1) + IntBitLen(a[Len(a)])

BOdd(a) == a # <<>> /\ a[1] % 2 = 1

\* A double is (-1)^neg * m * 2^e with m of exactly 53 bits, or 0.0 with
\* m = 0; -0.0 is not told from 0.0 (they compare equal in the code too).
\* e = NonFinite marks inf and nan.
F64Zero == [neg |-> FALSE, m |-> <<>>, e |-> 0]

NonFinite == 2^20

F64NaN == [neg |-> FALSE, m |-> <<>>, e |-> NonFinite]

\* the double nearest to (-1)^neg * M * 2^e, ties to even
F64Round(neg, M, e) ==
    LET L == BBitLen(M)
    IN  IF L = 0 THEN F64Zero
        ELSE IF L <= MantissaBits
        THEN [neg |-> neg, m |-> BShl(M, MantissaBits - L), e |-> e - (MantissaBits - L)]
        ELSE LET d == L - MantissaBits
                 q == BShr(M, d)
                 c == BCmp(BSub(M, BShl(q, d)), BShl(<<1>>, d - 1))
                 up == c = 1 \/ (c = 0 /\ BOdd(q))
                 q2 == IF up THEN BAdd(q, <<1>>) ELSE q
             IN  IF BBitLen(q2) > MantissaBits
                 THEN [neg |-> neg, m |-> BShr(q2, 1), e |-> e + d + 1]
                 ELSE [neg |-> neg, m |-> q2, e |-> e + d]

\* the double of a Python int
F64FromInt(n) == F64Round(n < 0, BFromInt(IF n < 0 THEN -n ELSE n), 0)

F64Finite(x) == x.e # NonFinite

\* x * y
F64Mul(x, y) ==
    IF ~F64Finite(x) \/ ~F64Finite(y) THEN F64NaN
    ELSE IF x.m = <<>> \/ y.m = <<>> THEN F64Zero
    ELSE F64Round(x.neg # y.neg, BMul(x.m, y.m), x.e + y.e)

\* the double nearest to x + y for exact numbers x and y of the form
\* (-1)^neg * m * 2^e with m of any size
RoundedSum(x, y) ==
    IF x.m = <<>> THEN F64Round(y.neg, y.m, y.e)
    ELSE IF y.m = <<>> THEN F64Round(x.neg, x.m, x.e)
    ELSE LET e == IF x.e < y.e THEN x.e ELSE y.e
             X == BShl(x.m, x.e - e)
             Y == BShl(y.m, y.e - e)
             c == BCmp(X, Y)
         IN  IF x.neg = y.neg THEN F64Round(x.neg, BAdd(X, Y), e)
             ELSE IF c = 0 THEN F64Zero
             ELSE IF c = 1 THEN F64Round(x.neg, BSub(X, Y), e)
             ELSE F64Round(y.neg, BSub(Y, X), e)

\* x + y
F64Add(x, y) ==
    IF ~F64Finite(x) \/ ~F64Finite(y) THEN F64NaN ELSE RoundedSum(x, y)

\* fma(x, y, z): x * y + z rounded once
F64Fma(x, y, z) ==
    IF ~F64Finite(x) \/ ~F64Finite(y) \/ ~F64Finite(z) THEN F64NaN
    ELSE RoundedSum([neg |-> x.neg # y.neg, m |-> BMul(x.m, y.m), e |-> x.e + y.e], z)

\* x - y
F64Sub(x, y) == F64Add(x, [y EXCEPT !.neg = (y.m # <<>> /\ ~y.neg)])

\* x < y
F64Lt(x, y) == F64Finite(x) /\ F64Finite(y) /\ F64Sub(x, y).neg

\* k steps of long division of r by d, one quotient bit a step
RECURSIVE DivRun(_, _, _, _)
DivRun(r, d, k, q) ==
    IF k = 0 THEN [q |-> q, r |-> r]
    ELSE LET ge == BCmp(r, d) >= 0
             r1 == IF ge THEN BSub(r, d) ELSE r
             q1 == BAdd(BAdd(q, q), IF ge THEN <<1>> ELSE <<>>)
         IN  IF Len(q1) >= 0 THEN DivRun(BAdd(r1, r1), d, k - 1, q1) ELSE q1

\* the same k steps in runs of a limb's bits; once nothing is left of r the
\* bits that follow are 0
RECURSIVE DivSteps(_, _, _, _)
DivSteps(r, d, k, q) ==
    IF k <= 15 THEN DivRun(r, d, k, q)
    ELSE LET s == DivRun(r, d, 15, q)
         IN  IF s.r = <<>> THEN [q |-> BShl(s.q, k - 15), r |-> s.r]
             ELSE DivSteps(s.r, d, k - 15, s.q)

\* the double nearest to (-1)^neg * (s.q + f) * 2^(e + 1) where 0 <= f < 1
\* is what the steps left over, s.r telling whether f is 0
RoundSticky(neg, s, e) ==
    F64Round(neg, BAdd(BAdd(s.q, s.q), IF s.r = <<>> THEN <<>> ELSE <<1>>), e)

\* x / y; a division by 0.0 gives inf or nan
F64Div(x, y) ==
    IF ~F64Finite(x) \/ ~F64Finite(y) \/ y.m = <<>> THEN F64NaN
    ELSE IF x.m = <<>> THEN F64Zero
    ELSE RoundSticky(x.neg # y.neg, DivSteps(x.m, y.m, MantissaBits + 3, <<>>),
                     x.e - y.e - (MantissaBits + 3))

\* k steps of the integer square root of M, one bit a step: what is left
\* of M, the root so far and the bit to try next
RECURSIVE SqrtRun(_, _, _, _)
SqrtRun(M, res, bit, k) ==
    IF k = 0 \/ bit = <<>> THEN [r |-> M, q |-> res, bit |-> bit]
    ELSE LET t == BAdd(res, bit)
         IN  IF BCmp(M, t) >= 0
             THEN SqrtRun(BSub(M, t), BAdd(BShr(res, 1), bit), BShr(bit, 2), k - 1)
             ELSE SqrtRun(M, BShr(res, 1), BShr(bit, 2), k - 1)

\* the integer square root of M and what is left, in runs of a limb's bits
RECURSIVE SqrtSteps(_, _, _)
SqrtSteps(M, res, bit) ==
    IF bit = <<>> THEN [q |-> res, r |-> M]
    ELSE LET s == SqrtRun(M, res, bit, 15)
         IN  SqrtSteps(s.r, s.q, s.bit)

\* sqrt(x) for x >= 0
F64Sqrt(x) ==
    IF ~F64Finite(x) \/ x.neg THEN F64NaN
    ELSE IF x.m = <<>> THEN F64Zero
    ELSE LET k == IF (x.e - (MantissaBits + 4)) % 2 = 0
                  THEN MantissaBits + 4 ELSE MantissaBits + 5
             M == BShl(x.m, k)
             top == 2 * ((BBitLen(M) - 1) \div 2)
         IN  RoundSticky(FALSE, SqrtSteps(M, <<>>, BShl(<<1>>, top)),
                         ((x.e - k) \div 2) - 1)

\* the double 1.0 of line 82
One64 == F64FromInt(1)

\* the double 1e-6 of line 81, the double nearest to 1 / 10^6
Eps64 == F64Div(F64FromInt(1), F64FromInt(EpsInv))

\* the double of one lattice unit, 2e-6 / TwoEps
Unit64 == F64Div(F64Div(F64FromInt(2), F64FromInt(EpsInv)), F64FromInt(TwoEps))

\* the caller's array of doubles for a hand on the lattice: coordinate n is
\* the double n * Unit64
AsDoubles(hand) ==
    [i \in DOMAIN hand |->
        [j \in DOMAIN hand[i] |-> F64Mul(F64FromInt(hand[i][j].n), Unit64)]]

\* elementwise v - w of two points
VSub64(v, w) == [j \in DOMAIN v |-> F64Sub(v[j], w[j])]

\* the dot product of v with itself: the loop dot += x[i] * x[i] of the
\* BLAS the build links, in index order.  The build decides the rounding:
\* compiled to a fused multiply-add (fma) every step rounds once, else the
\* product and the sum round each.
RECURSIVE SumSq64(_, _, _)
SumSq64(v, k, fma) ==
    IF k = 0 THEN F64Zero
    ELSE IF fma THEN F64Fma(v[k - 1], v[k - 1], SumSq64(v, k - 1, fma))
    ELSE F64Add(SumSq64(v, k - 1, fma), F64Mul(v[k - 1], v[k - 1]))

\* np.linalg.norm of a point: sqrt(dot(v, v))
Norm64(v, fma) == F64Sqrt(SumSq64(v, ALen(v), fma))

\* _normalize_translation on doubles, line 71
normalize_translation_f64(landmarks) ==
    [i \in DOMAIN landmarks |-> VSub64(landmarks[i], landmarks[WRIST])]

\* the palm_size of line 78 on doubles
palm_size_f64(landmarks, fma) ==
    Norm64(VSub64(landmarks[MIDDLE_MCP], landmarks[WRIST]), fma)

\* mutant: the test of line 81 inverted
palm_divisor_f64_inverted(landmarks, fma) ==
    LET palm_size == palm_size_f64(landmarks, fma)
    IN  IF F64Lt(palm_size, Eps64) THEN palm_size ELSE One64

\* the divisor of line 84 on doubles, after the clamp of lines 81-82
palm_divisor_f64(landmarks, fma) ==
    LET palm_size == palm_size_f64(landmarks, fma)
    IN  IF F64Lt(palm_size, Eps64) THEN One64 ELSE palm_size

\* _normalize_scale on doubles: landmarks / palm_size
normalize_scale_f64(landmarks, fma) ==
    LET palm_size == palm_divisor_f64(landmarks, fma)
    IN  [i \in DOMAIN landmarks |->
            [j \in DOMAIN landmarks[i] |-> F64Div(landmarks[i][j], palm_size)]]

\* the division of line 84 on doubles: by the divisor after the clamp
scale_divisions_f64(landmarks, fma) ==
    {[site |-> "scale", finger |-> -1, divisor |-> palm_divisor_f64(landmarks, fma)]}

\* the 4 distances of one finger on doubles, lines 93-100
finger_joint_distances_f64(landmarks, finger, fma) ==
    LET joints == Joints(finger)
    IN  [i \in 0..(ALen(finger) - 1) |->
            Norm64(VSub64(landmarks[joints[i + 1]], landmarks[joints[i]]), fma)]

RECURSIVE inter_joint_upto_f64(_, _, _)
inter_joint_upto_f64(landmarks, k, fma) ==
    IF k = 0 THEN Arr(<<>>)
    ELSE AConcat(inter_joint_upto_f64(landmarks, k - 1, fma),
                 finger_joint_distances_f64(landmarks, FINGERS[k - 1], fma))

\* _compute_inter_joint_distances on doubles
compute_inter_joint_distances_f64(landmarks, fma) ==
    inter_joint_upto_f64(landmarks, ALen(FINGERS), fma)


\* --------------------------------------------------------------- inputs
\* Finger poses: the 4 joints MCP, PIP, DIP, TIP relative to the wrist, in
\* lattice units.  No length on the lattice is the threshold itself (its
\* square, TwoEps^2 / 4 units, is no integer), where the float rounding of
\* the subtraction, not the comparison of line 81 or 144, would decide.
Collapsed == <<(<<0, 0, 0>>), (<<0, 0, 0>>), (<<0, 0, 0>>), (<<0, 0, 0>>)>>
Tiny == <<(<<1, 0, 0>>), (<<1, 1, 0>>), (<<2, 1, 0>>), (<<2, 1, 1>>)>>
Straight == <<(<<1, 2, 0>>), (<<2, 4, 0>>), (<<3, 6, 0>>), (<<4, 8, 0>>)>>
Hooked == <<(<<1, 3, 0>>), (<<1, 6, 1>>), (<<3, 8, 3>>), (<<3, 6, 4>>)>>
Folded == <<(<<0, 1, 3>>), (<<0, 2, 6>>), (<<0, 1, 3>>), (<<1, 1, 3>>)>>
Partial == <<(<<3, 1, 0>>), (<<3, 1, 0>>), (<<3, 3, 1>>), (<<3, 4, 1>>)>>
ThumbOut == <<(<<-2, 1, 0>>), (<<-4, 2, 0>>), (<<-6, 3, 0>>), (<<-6, 5, 0>>)>>
ThumbBent == <<(<<-2, 0, 0>>), (<<-2, 2, 1>>), (<<-1, 3, -1>>), (<<0, 3, -1>>)>>

\* the poses each finger is drawn from, in FINGERS order
FingerPoses ==
    Arr(<<{Collapsed, ThumbOut, ThumbBent},
          {Collapsed, Tiny, Straight, Hooked, Folded, Partial},
          {Collapsed, Tiny, Straight, Hooked, Partial},
          {Collapsed, Hooked},
          {Collapsed, Partial, Straight}>>)

Wrists == {<<0, 0, 0>>, <<3, -1, 2>>}

\* the 21 x 3 array with the wrist at w and finger f posed as choice[f]
Hand(w, choice) ==
    [i \in 0..20 |->
        [j \in 0..2 |->
            IF i = WRIST THEN Coord(w[j + 1])
            ELSE Coord(w[j + 1] + choice[(i - 1) \div 4][((i - 1) % 4) + 1][j + 1])]]

ValidHands ==
    {Hand(w, Arr(<<t, i, m, r, p>>)) :
        w \in Wrists, t \in FingerPoses[0], i \in FingerPoses[1],
        m \in FingerPoses[2], r \in FingerPoses[3], p \in FingerPoses[4]}

\* The hands of the double-precision runs: every middle finger pose and
\* both wrists, with a choice of the other fingers.
DoubleHands ==
    {Hand(w, Arr(<<t, i, m, r, p>>)) :
        w \in Wrists, t \in {ThumbOut, ThumbBent}, i \in {Tiny, Hooked},
        m \in FingerPoses[2], r \in {Hooked}, p \in {Partial, Straight}}

\* Arrays of other shapes a caller can pass, made from a 21 x 3 hand:
\* fewer points, more points, 2 or 4 components per point.
Reshape(hand, kind) ==
    CASE kind = "21x3" -> hand
      [] kind = "0x3" -> [i \in {} |-> hand[0]]
      [] kind = "9x3" -> [i \in 0..8 |-> hand[i]]
      [] kind = "20x3" -> [i \in 0..19 |-> hand[i]]
      [] kind = "22x3" -> [i \in 0..21 |-> IF i = 21 THEN hand[MIDDLE_TIP] ELSE hand[i]]
      [] kind = "21x2" -> [i \in 0..20 |-> [j \in 0..1 |-> hand[i][j]]]
      [] kind = "21x4" -> [i \in 0..20 |->
                              [j \in 0..3 |-> IF j = 3 THEN Coord(i % 2) ELSE hand[i][j]]]

Kinds == {"21x3", "0x3", "9x3", "20x3", "22x3", "21x2", "21x4"}

\* exactly 21 points of 3 components
ValidShape(landmarks) ==
    /\ DOMAIN landmarks = 0..20
    /\ \A i \in DOMAIN landmarks : DOMAIN landmarks[i] = 0..2

\* ---------------------------------------------------------------- state
VARIABLES
    landmarks,          \* the caller's array, the argument of extract
    pc,                 \* where the call stands
    normalized,         \* line 48
    scaled,             \* line 51
    inter_joint_dists,  \* line 54
    fingertip_dists,    \* line 55
    finger_angles,      \* line 56
    pinch_dist,         \* line 57
    features,           \* the value returned, line 67
    error,              \* the exception raised to the caller, if any
    divisions,          \* every division performed so far: where, and by what
    fused,              \* the build: a product and a sum are compiled to one fma
    calls,              \* callers of extract: the locals of each one's call
    attrs,              \* the attributes of each HandFeatureExtractor instance
    log,                \* the calls that returned so far, oldest first
    rpc,                \* where GestureRecorder.record stands
    gesture,            \* record's argument gesture
    num_samples,        \* record's argument num_samples
    recording,          \* the local flag of record
    samples,            \* self.samples
    mouse_clicked,      \* the global set by mouse_callback
    click_xy,           \* the globals click_x, click_y
    results,            \* the hands MediaPipe found in the current frame
    frames,             \* the frames read so far; the clock of the timestamps
    csv_file,           \* the file _save_samples wrote last
    writes,             \* how many times a file was written
    gpc,                \* where SyntheticGestureGenerator stands
    seed,               \* the seed given to np.random.seed
    samples_per_gesture, \* generate_dataset's argument
    rng,                \* the draws made from the seeded generator so far
    gen_next,           \* the position of the next gesture in generators
    gen_file,           \* the file generate_dataset wrote last
    mpc,                \* where merge_gesture_datasets stands
    csv_files,          \* the files of the input directory, in glob's order
    shuffle,            \* merge_gesture_datasets's argument
    midx,               \* the position of the loop in csv_files
    dataframes,         \* line 47
    gesture_counts,     \* line 48
    load_errors,        \* the files reported by line 63
    output_file,        \* the files at output_path: none or one
    merror,             \* the exception merge_gesture_datasets ended with
    tpc,                \* where each run of the trainer script stands
    targs,              \* the caller of each run and its model argument
    tdata,              \* the file at data_path of each run
    trainer,            \* the GestureClassifierTrainer object of each run
    teval,              \* how far the loops of evaluate of each run have come
    models_dir,         \* what was written to the models directory
    truns,              \* the runs of the script started so far
    terror              \* the exception each run ended with

\* one call of extract on its own
extractVars == <<landmarks, pc, normalized, scaled, inter_joint_dists, fingertip_dists,
                 finger_angles, pinch_dist, features, error, divisions, fused>>

\* several callers
callVars == <<calls, attrs, log>>

\* the recorder
recorderVars == <<rpc, gesture, num_samples, recording, samples, mouse_clicked,
                  click_xy, results, frames, csv_file, writes>>

\* the synthetic data generator
generatorVars == <<gpc, seed, samples_per_gesture, rng, gen_next, gen_file>>

\* the merge of the recorded files
mergeVars == <<mpc, csv_files, shuffle, midx, dataframes, gesture_counts, load_errors,
               output_file, merror>>

\* the trainer
trainerVars == <<tpc, targs, tdata, trainer, teval, models_dir, truns, terror>>

vars == <<extractVars, callVars, recorderVars, generatorVars, mergeVars, trainerVars>>

\* a local not assigned yet
Unset == [i \in {} |-> 0]

\* a session without further callers
NoCallers ==
    /\ calls = Unset
    /\ attrs = Unset
    /\ log = <<>>

\* no file written
NoFile == [header |-> <<>>, rows |-> <<>>]

\* a session in which merge_gesture_datasets is not called
NoMerge ==
    /\ mpc = "none"
    /\ csv_files = <<>>
    /\ shuffle = FALSE
    /\ midx = 0
    /\ dataframes = <<>>
    /\ gesture_counts = Unset
    /\ load_errors = <<>>
    /\ output_file = <<>>
    /\ merror = "none"

\* a session in which the trainer is not run
NoTrainer ==
    /\ tpc = <<>>
    /\ targs = <<>>
    /\ tdata = <<>>
    /\ trainer = <<>>
    /\ teval = <<>>
    /\ models_dir = Unset
    /\ truns = 0
    /\ terror = <<>>

\* a session in which the call of the single-call model is not made
\* (the build is each specification's to choose)
NoExtractCall ==
    /\ landmarks = Unset
    /\ pc = "idle"
    /\ normalized = Unset
    /\ scaled = Unset
    /\ inter_joint_dists = Unset
    /\ fingertip_dists = Unset
    /\ finger_angles = Unset
    /\ pinch_dist = Unset
    /\ features = Unset
    /\ error = "none"
    /\ divisions = {}

\* a session without a SyntheticGestureGenerator
NoGenerator ==
    /\ gpc = "none"
    /\ seed = 0
    /\ samples_per_gesture = 0
    /\ rng = 0
    /\ gen_next = 0
    /\ gen_file = NoFile

\* a session without a GestureRecorder
NoRecorder ==
    /\ rpc = "none"
    /\ gesture = ""
    /\ num_samples = 0
    /\ recording = FALSE
    /\ samples = <<>>
    /\ mouse_clicked = FALSE
    /\ click_xy = <<0, 0>>
    /\ results = <<>>
    /\ frames = 0
    /\ csv_file = NoFile
    /\ writes = 0

Init ==
    /\ landmarks \in {Reshape(h, k) : h \in ValidHands, k \in Kinds}
    /\ pc = "call"
    /\ normalized = Unset
    /\ scaled = Unset
    /\ inter_joint_dists = Unset
    /\ fingertip_dists = Unset
    /\ finger_angles = Unset
    /\ pinch_dist = Unset
    /\ features = Unset
    /\ error = "none"
    /\ divisions = {}
    /\ fused = FALSE
    /\ NoCallers
    /\ NoRecorder
    /\ NoGenerator
    /\ NoMerge
    /\ NoTrainer

\* an index outside the array: numpy raises IndexError, which extract lets through
Raise(kind) ==
    /\ pc' = "raised"
    /\ error' = kind

\* the landmark indices lines 93-100 read
AllJoints == {FINGERS[f][k] : f \in DOMAIN FINGERS, k \in 0..3} \cup {WRIST}

\* mutant: line 71 as landmarks -= landmarks[WRIST], written into the
\* caller's array
NormalizeTranslation_in_place ==
    /\ pc = "call"
    /\ IF WRIST \in DOMAIN landmarks
       THEN /\ normalized' = normalize_translation(landmarks)
            /\ landmarks' = normalized'
            /\ pc' = "translated"
            /\ UNCHANGED error
       ELSE /\ Raise("IndexError")
            /\ UNCHANGED <<landmarks, normalized>>
    /\ UNCHANGED <<scaled, inter_joint_dists, fingertip_dists,
                   finger_angles, pinch_dist, features, divisions>>
    /\ UNCHANGED <<fused, callVars, recorderVars, generatorVars, mergeVars, trainerVars>>

\* line 48
NormalizeTranslation ==
    /\ pc = "call"
    /\ IF WRIST \in DOMAIN landmarks
       THEN /\ normalized' = normalize_translation(landmarks)
            /\ pc' = "translated"
            /\ UNCHANGED error
       ELSE /\ Raise("IndexError")
            /\ UNCHANGED normalized
    /\ UNCHANGED <<landmarks, scaled, inter_joint_dists, fingertip_dists,
                   finger_angles, pinch_dist, features, divisions>>
    /\ UNCHANGED <<fused, callVars, recorderVars, generatorVars, mergeVars, trainerVars>>

\* line 51
NormalizeScale ==
    /\ pc = "translated"
    /\ IF {WRIST, MIDDLE_MCP} \subseteq DOMAIN normalized
       THEN /\ scaled' = normalize_scale(normalized)
            /\ divisions' = divisions \cup scale_divisions(normalized)
            /\ pc' = "scaled"
            /\ UNCHANGED error
       ELSE /\ Raise("IndexError")
            /\ UNCHANGED <<scaled, divisions>>
    /\ UNCHANGED <<landmarks, normalized, inter_joint_dists, fingertip_dists,
                   finger_angles, pinch_dist, features>>
    /\ UNCHANGED <<fused, callVars, recorderVars, generatorVars, mergeVars, trainerVars>>

\* line 54
ComputeInterJointDistances ==
    /\ pc = "scaled"
    /\ IF AllJoints \subseteq DOMAIN scaled
       THEN /\ inter_joint_dists' = compute_inter_joint_distances(scaled)
            /\ pc' = "inter_joint"
            /\ UNCHANGED error
       ELSE /\ Raise("IndexError")
            /\ UNCHANGED inter_joint_dists
    /\ UNCHANGED <<landmarks, normalized, scaled, fingertip_dists,
                   finger_angles, pinch_dist, features, divisions>>
    /\ UNCHANGED <<fused, callVars, recorderVars, generatorVars, mergeVars, trainerVars>>

\* line 55; every index it reads was read by line 54's stage
ComputeFingertipDistances ==
    /\ pc = "inter_joint"
    /\ fingertip_dists' = compute_fingertip_distances(scaled)
    /\ pc' = "fingertip"
    /\ UNCHANGED <<landmarks, normalized, scaled, inter_joint_dists,
                   finger_angles, pinch_dist, features, error, divisions>>
    /\ UNCHANGED <<fused, callVars, recorderVars, generatorVars, mergeVars, trainerVars>>

\* line 56; every index it reads was read by line 54's stage
ComputeFingerAngles ==
    /\ pc = "fingertip"
    /\ finger_angles' = compute_finger_angles(scaled)
    /\ divisions' = divisions \cup angle_divisions(scaled)
    /\ pc' = "angles"
    /\ UNCHANGED <<landmarks, normalized, scaled, inter_joint_dists,
                   fingertip_dists, pinch_dist, features, error>>
    /\ UNCHANGED <<fused, callVars, recorderVars, generatorVars, mergeVars, trainerVars>>

\* line 57
ComputePinchDistance ==
    /\ pc = "angles"
    /\ pinch_dist' = compute_pinch_distance(scaled)
    /\ pc' = "pinch"
    /\ UNCHANGED <<landmarks, normalized, scaled, inter_joint_dists,
                   fingertip_dists, finger_angles, features, error, divisions>>
    /\ UNCHANGED <<fused, callVars, recorderVars, generatorVars, mergeVars, trainerVars>>

\* lines 60-67
Concatenate ==
    /\ pc = "pinch"
    /\ features' = concatenate(inter_joint_dists, fingertip_dists,
                               finger_angles, pinch_dist)
    /\ pc' = "returned"
    /\ UNCHANGED <<landmarks, normalized, scaled, inter_joint_dists,
                   fingertip_dists, finger_angles, pinch_dist, error, divisions>>
    /\ UNCHANGED <<fused, callVars, recorderVars, generatorVars, mergeVars, trainerVars>>

Next ==
    \/ NormalizeTranslation
    \/ NormalizeScale
    \/ ComputeInterJointDistances
    \/ ComputeFingertipDistances
    \/ ComputeFingerAngles
    \/ ComputePinchDistance
    \/ Concatenate

Spec == Init /\ [][Next]_vars

\* ------------------------------------------------------ several callers
\* Callers run extract again and again, each call on one of the extractor
\* instances, the steps of different callers interleaved stage by stage.
MaxCalls == 3

Callers == {1, 2}
Instances == {1, 2}

\* __init__ (lines 33-35) assigns no attribute
NoAttrs == Unset

\* the arrays the callers pass: two 21 x 3 hands (the second with the palm
\* clamp) and one array that is too short
CallInputs ==
    LET a == Hand(<<3, -1, 2>>, Arr(<<ThumbOut, Hooked, Straight, Hooked, Partial>>))
        b == Hand(<<0, 0, 0>>, Arr(<<ThumbBent, Tiny, Collapsed, Collapsed, Straight>>))
    IN  {a, b, Reshape(a, "9x3")}

\* a caller that is not inside extract
IdleCall ==
    [landmarks |-> Unset, self |-> 0, made |-> 0, pc |-> "idle",
     normalized |-> Unset, scaled |-> Unset, inter_joint_dists |-> Unset,
     fingertip_dists |-> Unset, finger_angles |-> Unset, pinch_dist |-> Unset,
     features |-> Unset, error |-> "none"]

\* the next stage of extract (lines 48-67) on the locals c of one call
StepLocals(c) ==
    CASE c.pc = "call" ->
            IF WRIST \in DOMAIN c.landmarks
            THEN [c EXCEPT !.normalized = normalize_translation(c.landmarks),
                           !.pc = "translated"]
            ELSE [c EXCEPT !.pc = "raised", !.error = "IndexError"]
      [] c.pc = "translated" ->
            IF {WRIST, MIDDLE_MCP} \subseteq DOMAIN c.normalized
            THEN [c EXCEPT !.scaled = normalize_scale(c.normalized), !.pc = "scaled"]
            ELSE [c EXCEPT !.pc = "raised", !.error = "IndexError"]
      [] c.pc = "scaled" ->
            IF AllJoints \subseteq DOMAIN c.scaled
            THEN [c EXCEPT !.inter_joint_dists = compute_inter_joint_distances(c.scaled),
                           !.pc = "inter_joint"]
            ELSE [c EXCEPT !.pc = "raised", !.error = "IndexError"]
      [] c.pc = "inter_joint" ->
            [c EXCEPT !.fingertip_dists = compute_fingertip_distances(c.scaled),
                      !.pc = "fingertip"]
      [] c.pc = "fingertip" ->
            [c EXCEPT !.finger_angles = compute_finger_angles(c.scaled), !.pc = "angles"]
      [] c.pc = "angles" ->
            [c EXCEPT !.pinch_dist = compute_pinch_distance(c.scaled), !.pc = "pinch"]
      [] c.pc = "pinch" ->
            [c EXCEPT !.features = concatenate(c.inter_joint_dists, c.fingertip_dists,
                                               c.finger_angles, c.pinch_dist),
                      !.pc = "returned"]

\* mutant: the palm size of an instance's first call kept in self.palm_size
\* and used by its later calls
StepCall_cached(c, a) ==
    IF c.pc = "translated" /\ {WRIST, MIDDLE_MCP} \subseteq DOMAIN c.normalized
    THEN LET palm_size == IF "palm_size" \in DOMAIN a THEN a.palm_size
                          ELSE palm_divisor(c.normalized)
         IN  [call |-> [c EXCEPT !.scaled =
                                    [i \in DOMAIN c.normalized |->
                                        [j \in DOMAIN c.normalized[i] |->
                                            CDiv(c.normalized[i][j], palm_size)]],
                                 !.pc = "scaled"],
              attrs |-> [palm_size |-> palm_size]]
    ELSE [call |-> StepLocals(c), attrs |-> a]

\* mutant: the translated pose kept in self.normalized and read back from
\* there by the scaling stage
StepCall_shared_buffer(c, a) ==
    IF c.pc = "call" /\ WRIST \in DOMAIN c.landmarks
    THEN [call |-> StepLocals(c), attrs |-> [normalized |-> StepLocals(c).normalized]]
    ELSE IF c.pc = "translated" /\ "normalized" \in DOMAIN a
    THEN [call |-> StepLocals([c EXCEPT !.normalized = a.normalized]), attrs |-> a]
    ELSE [call |-> StepLocals(c), attrs |-> a]

\* one stage of a call on an instance with attributes a: the stages work on
\* locals only, no line of the class assigns to self
StepCall(c, a) == [call |-> StepLocals(c), attrs |-> a]

InitCalls ==
    /\ NoExtractCall
    /\ fused = FALSE
    /\ calls = [t \in Callers |-> IdleCall]
    /\ attrs = [i \in Instances |-> NoAttrs]
    /\ log = <<>>
    /\ NoRecorder
    /\ NoGenerator
    /\ NoMerge
    /\ NoTrainer

\* the calls made so far by all callers
CallsMade == calls[1].made + calls[2].made

\* caller t enters extract(landmarks) on one of the instances
Call(t) ==
    /\ calls[t].pc \in {"idle", "returned", "raised"}
    /\ CallsMade < MaxCalls
    /\ \E input \in CallInputs, self \in Instances :
          calls' = [calls EXCEPT ![t] =
                       [IdleCall EXCEPT !.landmarks = input, !.self = self,
                                        !.made = calls[t].made + 1, !.pc = "call"]]
    /\ UNCHANGED <<attrs, log, extractVars, recorderVars, generatorVars, mergeVars, trainerVars>>

\* caller t runs the next stage of its call; a call that returns hands its
\* feature vector to the caller
Stage(t) ==
    /\ calls[t].pc \notin {"idle", "returned", "raised"}
    /\ LET r == StepCall(calls[t], attrs[calls[t].self])
       IN  /\ calls' = [calls EXCEPT ![t] = r.call]
           /\ attrs' = [attrs EXCEPT ![calls[t].self] = r.attrs]
           /\ log' = IF r.call.pc = "returned"
                     THEN Append(log, [landmarks |-> r.call.landmarks,
                                       features |-> r.call.features,
                                       self |-> r.call.self])
                     ELSE log
    /\ UNCHANGED <<extractVars, recorderVars, generatorVars, mergeVars, trainerVars>>

NextCalls ==
    \E t \in Callers :
        \/ Call(t)
        \/ Stage(t)

SpecCalls == InitCalls /\ [][NextCalls]_vars

\* --------------------------------------------------------- the recorder
\* record_gestures.py: GestureRecorder.record, one loop iteration per frame,
\* taken in the steps read, click check, hand processing, key check.
MaxFrames == 3
MaxTarget == 2

GESTURE_LABELS == {"open_hand", "fist", "pinch", "point", "thumbs_up"}

\* the gesture arguments tried: a label and a name that is no label
GestureArgs == {"fist", "wave"}

\* the hands MediaPipe reports: 21 landmarks of 3 coordinates each
RecorderHands ==
    {Hand(<<3, -1, 2>>, Arr(<<ThumbOut, Hooked, Straight, Hooked, Partial>>)),
     Hand(<<0, 0, 0>>, Arr(<<ThumbBent, Tiny, Collapsed, Collapsed, Straight>>))}

\* draw_button returns the bounds (x, y, x + w, y + h)
draw_button(x, y, w, h) == <<x, y, x + w, y + h>>

\* is_button_clicked
is_button_clicked(btn_bounds, click_x, click_y) ==
    /\ btn_bounds[1] <= click_x /\ click_x <= btn_bounds[3]
    /\ btn_bounds[2] <= click_y /\ click_y <= btn_bounds[4]

\* the two buttons, lines 153-158
record_btn == draw_button(10, 10, 100, 40)
save_btn == draw_button(120, 10, 80, 40)

\* where the user clicks: inside RECORD, on its lower right corner, inside
\* SAVE, between the buttons, elsewhere
ClickPoints == {<<50, 30>>, <<110, 50>>, <<150, 30>>, <<115, 30>>, <<300, 200>>}

\* the key codes of waitKey(1) & 0xFF: q, r, s, another key, no key (255)
Keys == {"q", "r", "s", "x", "none"}

\* list(a) of an array
ToList(a) == [i \in 1..ALen(a) |-> a[i - 1]]

\* datetime.now().isoformat(): the text of the clock reading
isoformat(now) == [iso |-> now]

\* ------------------------------------------------ numbers as text
\* A CSV file holds a number as text: the writers put str() of the double,
\* pandas reads the text back into a double.  Neither is the identity on
\* what the other makes, so both are computed here, on texts as sequences
\* of characters.

DigitChars == <<"0", "1", "2", "3", "4", "5", "6", "7", "8", "9">>

isdigit(c) == \E d \in 1..10 : DigitChars[d] = c

DigitOf(c) == (CHOOSE d \in 1..10 : DigitChars[d] = c) - 1

\* 10^k
RECURSIVE BPow10(_)
BPow10(k) == IF k = 0 THEN <<1>> ELSE BMulSmall(BPow10(k - 1), 10, 0)

\* 2^k
BPow2(k) == BShl(<<1>>, k)

\* a \div k and a % k for 0 < k < 2^15, from the top limb down: q holds the
\* limbs of the quotient above limb i, rem what is left of them
RECURSIVE BDivSmallFrom(_, _, _, _, _)
BDivSmallFrom(a, k, i, rem, q) ==
    IF i = 0 THEN [q |-> BTrim(q), r |-> rem]
    ELSE BDivSmallFrom(a, k, i - 1, (rem * Limb + a[i]) % k,
                       <<(rem * Limb + a[i]) \div k>> \o q)

BDivSmall(a, k) == BDivSmallFrom(a, k, Len(a), 0, <<>>)

\* a \div 10^k
RECURSIVE BDropDigits(_, _)
BDropDigits(a, k) ==
    IF k = 0 \/ a = <<>> THEN a ELSE BDropDigits(BDivSmall(a, 10).q, k - 1)

\* the decimal digits of a before the digits given, the first first
RECURSIVE BDigitsBefore(_, _)
BDigitsBefore(a, digits) ==
    IF a = <<>> THEN digits
    ELSE BDigitsBefore(BDivSmall(a, 10).q, <<DigitChars[BDivSmall(a, 10).r + 1]>> \o digits)

BDigits(a) == BDigitsBefore(a, <<>>)

\* a \div b for b > 0
BDiv(a, b) ==
    IF BCmp(a, b) < 0 THEN <<>>
    ELSE DivSteps(a, BShl(b, BBitLen(a) - BBitLen(b)), BBitLen(a) - BBitLen(b) + 1, <<>>).q

Max0(n) == IF n > 0 THEN n ELSE 0

\* |x| < 10^k for a double x that is not 0
LessPow10(x, k) ==
    BCmp(BMul(BShl(x.m, Max0(x.e)), BPow10(Max0(-k))),
         BMul(BPow2(Max0(-x.e)), BPow10(Max0(k)))) < 0

\* the least k at or above k0 with |x| < 10^k, for 10^(k0 - 1) <= |x|
DecimalPointFrom(x, k0) ==
    IF LessPow10(x, k0) THEN k0
    ELSE IF LessPow10(x, k0 + 1) THEN k0 + 1
    ELSE k0 + 2

\* where the decimal point of x stands: the least k with |x| < 10^k; x is
\* at least 2^(e + 52), and 0.30103 is just above log10(2)
DecimalPoint(x) == DecimalPointFrom(x, ((x.e + MantissaBits - 1) * 30103) \div 100000)

\* digits without the zeros at their end
RECURSIVE StripZeros(_)
StripZeros(digits) ==
    IF Len(digits) > 1 /\ digits[Len(digits)] = "0"
    THEN StripZeros(SubSeq(digits, 1, Len(digits) - 1))
    ELSE digits

\* the most digits a double needs to be told from its neighbours
ReprDigits == 17

\* |x| and the reals that round to x, in units of 1/b of the last of 17
\* digits: |x| is a, the reals are those between lo and hi, the ends with
\* them when the significand is even (ties go to even); c holds the first
\* 17 digits of |x|.  u is a quarter of the gap to the next double.
Readings(x, u, b, a) ==
    [a |-> a, b |-> b,
     lo |-> BSub(a, IF BCmp(x.m, BPow2(MantissaBits - 1)) = 0 THEN u ELSE BShl(u, 1)),
     hi |-> BAdd(a, BShl(u, 1)),
     even |-> ~BOdd(x.m),
     c |-> BDiv(a, b)]

\* the decimal v of n digits, in the units of w
InUnits(w, n, v) == BMul(BMul(v, BPow10(ReprDigits - n)), w.b)

\* the number s reads back as x
ReadsBack(w, s) ==
    /\ BCmp(s, w.lo) > 0 \/ (BCmp(s, w.lo) = 0 /\ w.even)
    /\ BCmp(w.hi, s) > 0 \/ (BCmp(w.hi, s) = 0 /\ w.even)

\* of the n-digit decimals down below |x| and down + 1 above it, the one
\* that reads back as x, the nearer when both do, the even on a tie: its
\* digits and where the point stands; <<>> when neither does
Nearest(w, k, n, down, below, above) ==
    IF ~ReadsBack(w, below) /\ ~ReadsBack(w, above) THEN <<>>
    ELSE IF /\ ReadsBack(w, above)
            /\ \/ ~ReadsBack(w, below)
               \/ BCmp(BSub(w.a, below), BSub(above, w.a)) > 0
               \/ (BCmp(BSub(w.a, below), BSub(above, w.a)) = 0 /\ BOdd(down))
    THEN (IF BCmp(BAdd(down, <<1>>), BPow10(n)) = 0
          THEN [digits |-> <<"1">>, point |-> k + 1]
          ELSE [digits |-> StripZeros(BDigits(BAdd(down, <<1>>))), point |-> k])
    ELSE [digits |-> StripZeros(BDigits(down)), point |-> k]

NearestOf(w, k, n, down) ==
    Nearest(w, k, n, down, InUnits(w, n, down), InUnits(w, n, BAdd(down, <<1>>)))

\* the decimal of the fewest digits, n or more, that reads back as x
RECURSIVE ShortestFrom(_, _, _, _)
ShortestFrom(w, k, n, found) ==
    IF found # <<>> THEN found
    ELSE ShortestFrom(w, k, n + 1, NearestOf(w, k, n, BDropDigits(w.c, ReprDigits - n)))

ShortestInUnits(x, k, u, b) ==
    ShortestFrom(Readings(x, u, b, BMul(BShl(x.m, 2), u)), k, 1, <<>>)

ShortestAtPoint(x, k) ==
    ShortestInUnits(x, k, BMul(BPow2(Max0(x.e - 2)), BPow10(Max0(ReprDigits - k))),
                    BMul(BPow2(Max0(2 - x.e)), BPow10(Max0(k - ReprDigits))))

\* the shortest decimal digits that read back as the double x, and among
\* those the nearest to x: the digits of repr(float) and of str(np.float64)
ShortestDigits(x) == ShortestAtPoint(x, DecimalPoint(x))

Zeros(n) == [i \in 1..n |-> "0"]

\* the digits of an exponent, two of them at least
ExponentDigits(n) ==
    IF n < 10 THEN <<"0", DigitChars[n + 1]>> ELSE BDigits(BFromInt(n))

\* the digits with the point among them for 1e-4 <= |x| < 1e16, and with an
\* exponent otherwise
Positional(digits, k) ==
    IF -4 < k /\ k <= 16
    THEN (IF k <= 0 THEN <<"0", ".">> \o Zeros(-k) \o digits
          ELSE IF k < Len(digits)
          THEN SubSeq(digits, 1, k) \o <<".">> \o SubSeq(digits, k + 1, Len(digits))
          ELSE digits \o Zeros(k - Len(digits)) \o <<".", "0">>)
    ELSE <<digits[1]>>
         \o (IF Len(digits) > 1 THEN <<".">> \o SubSeq(digits, 2, Len(digits)) ELSE <<>>)
         \o <<"e", IF k < 1 THEN "-" ELSE "+">>
         \o ExponentDigits(IF k < 1 THEN 1 - k ELSE k - 1)

FormatShortest(s) == Positional(s.digits, s.point)

\* str() of a double, as csv.writer and to_csv write it
float_repr(x) ==
    IF ~F64Finite(x) THEN <<"n", "a", "n">>
    ELSE IF x.m = <<>> THEN <<"0", ".", "0">>
    ELSE (IF x.neg THEN <<"-">> ELSE <<>>) \o FormatShortest(ShortestDigits(x))

\* pandas' table e[] of the powers of ten, 1e0 .. 1e308: the doubles of the
\* literals
max_exponent == 308

PowerOfTen(k) == F64Round(FALSE, BPow10(k), 0)

\* the digits a text contributes to the number
max_digits == 17

\* number * 10. + digit, in doubles: the product rounds, then the sum; in
\* a build that compiles the expression to a fused multiply-add the sum
\* alone rounds
TakeDigit(number, c, fma) ==
    IF fma THEN F64Fma(number, F64FromInt(10), F64FromInt(DigitOf(c)))
    ELSE F64Add(F64Mul(number, F64FromInt(10)), F64FromInt(DigitOf(c)))

\* the loop over the digits before the point: a digit is taken into the
\* number while fewer than max_digits were taken; a digit beyond them
\* counts for the exponent
RECURSIVE scan_integer(_, _, _)
scan_integer(str, st, fma) ==
    IF st.p <= Len(str) /\ isdigit(str[st.p])
    THEN scan_integer(str,
             IF st.num_digits < max_digits
             THEN [st EXCEPT !.number = TakeDigit(@, str[st.p], fma),
                             !.num_digits = @ + 1,
                             !.p = @ + 1]
             ELSE [st EXCEPT !.exponent = @ + 1, !.p = @ + 1],
             fma)
    ELSE st

\* the loop over the digits after the point: taken while fewer than
\* max_digits were taken, passed over after that
RECURSIVE scan_decimals(_, _, _)
scan_decimals(str, st, fma) ==
    IF st.p <= Len(str) /\ isdigit(str[st.p])
    THEN scan_decimals(str,
             IF st.num_digits < max_digits
             THEN [st EXCEPT !.number = TakeDigit(@, str[st.p], fma),
                             !.num_digits = @ + 1,
                             !.num_decimals = @ + 1,
                             !.p = @ + 1]
             ELSE [st EXCEPT !.p = @ + 1],
             fma)
    ELSE st

\* the digits of the exponent from position p on, as a number
RECURSIVE scan_exponent(_, _, _)
scan_exponent(str, p, n) ==
    IF p <= Len(str) /\ isdigit(str[p])
    THEN scan_exponent(str, p + 1, n * 10 + DigitOf(str[p]))
    ELSE n

\* the exponent after an e or E at position p, 0 without one
exponent_at(str, p) ==
    IF p <= Len(str) /\ str[p] \in {"e", "E"}
    THEN (IF p + 1 <= Len(str) /\ str[p + 1] = "-" THEN -scan_exponent(str, p + 2, 0)
          ELSE IF p + 1 <= Len(str) /\ str[p + 1] = "+" THEN scan_exponent(str, p + 2, 0)
          ELSE scan_exponent(str, p + 1, 0))
    ELSE 0

\* the number scaled by 10^exponent: one multiplication or division by a
\* power of ten of the table, two divisions below the table
scale_number(number, exponent) ==
    IF exponent > max_exponent THEN F64NaN
    ELSE IF exponent > 0 THEN F64Mul(number, PowerOfTen(exponent))
    ELSE IF exponent < -max_exponent
    THEN (IF exponent < -2 * max_exponent THEN F64Zero
          ELSE F64Div(F64Div(number, PowerOfTen(-max_exponent - exponent)),
                      PowerOfTen(max_exponent)))
    ELSE F64Div(number, PowerOfTen(-exponent))

\* the sign put on the number, the exponent read and the number scaled
finish_number(str, negative, st) ==
    IF st.num_digits = 0 THEN F64NaN
    ELSE scale_number(IF negative /\ st.number.m # <<>>
                      THEN [st.number EXCEPT !.neg = TRUE] ELSE st.number,
                      st.exponent - st.num_decimals + exponent_at(str, st.p))

\* the digits after the point, if there is one
after_integer(str, negative, st, fma) ==
    finish_number(str, negative,
                  IF st.p <= Len(str) /\ str[st.p] = "."
                  THEN scan_decimals(str, [st EXCEPT !.p = @ + 1], fma) ELSE st)

\* precise_xstrtod of pandas, the converter of read_csv without
\* float_precision, in a build with or without fused multiply-add: an
\* optional sign, the digits before and after the point taken into a
\* double up to max_digits of them (a leading 0 is one of them), an
\* optional exponent, and then the scaling by a power of ten.  The result
\* is not always the double nearest to the text, and for some texts of 17
\* digits it is not the same double in the two builds.  A text without a
\* digit is not a number (an empty field reads as NaN).
precise_xstrtod(str, fma) ==
    after_integer(str, str # <<>> /\ str[1] = "-",
                  scan_integer(str, [p |-> IF str # <<>> /\ str[1] \in {"-", "+"}
                                           THEN 2 ELSE 1,
                                     number |-> F64Zero, exponent |-> 0,
                                     num_digits |-> 0, num_decimals |-> 0],
                               fma),
                  fma)

\* a double of the binary64 section
IsDouble(x) == DOMAIN x = {"neg", "m", "e"}

\* csv.writer and to_csv write a number as its str().  A number the model
\* holds as a real number or as a draw stands for the double the code
\* computes, which the model does not: its text is kept as the text of
\* that double, whatever its digits are.
csv_text(x) == IF IsDouble(x) THEN [str |-> float_repr(x)] ELSE [str_of |-> x]

\* what read_csv makes of the text of a number: the double of
\* precise_xstrtod; of a text whose digits the model does not hold, the
\* reading of that text, which need not be the double written
from_text(field, fma) ==
    IF "str" \in DOMAIN field THEN precise_xstrtod(field.str, fma)
    ELSE [read_of |-> field]

\* csv.writer.writerow of [label] + list(feats) + [stamp]: the two strings
\* as they are, the numbers between them as text
writerow(label, feats, stamp) ==
    <<label>> \o [k \in 1..Len(feats) |-> csv_text(feats[k])] \o <<stamp>>

\* the header row of line 259
recorder_header ==
    <<"gesture">> \o [i \in 1..31 |-> "feature_" \o ToString(i - 1)] \o <<"timestamp">>

\* extract_features_from_mediapipe: the landmarks as an array, a new
\* extractor, extract
extract_features_from_mediapipe(hand_landmarks) == extract(hand_landmarks)

\* _save_samples: the file written for the samples collected so far
save_samples(smpls) ==
    [header |-> recorder_header,
     rows |-> [r \in 1..Len(smpls) |->
                  writerow(smpls[r].gesture, ToList(smpls[r].features),
                           smpls[r].timestamp)]]

\* the recorder's variables before record is called
RecorderAtStart ==
    /\ rpc = "start"
    /\ gesture \in GestureArgs
    /\ num_samples \in 1..MaxTarget
    /\ recording = FALSE
    /\ samples = <<>>
    /\ mouse_clicked = FALSE
    /\ click_xy = <<0, 0>>
    /\ results = <<>>
    /\ frames = 0
    /\ csv_file = NoFile
    /\ writes = 0

InitRecorder ==
    /\ NoExtractCall
    /\ fused = FALSE
    /\ NoCallers
    /\ NoGenerator
    /\ NoMerge
    /\ NoTrainer
    /\ RecorderAtStart

\* lines 105-136: the arguments checked, the camera opened, the loop entered
StartRecord ==
    /\ rpc = "start"
    /\ \E opened \in BOOLEAN :
          rpc' = IF gesture \notin GESTURE_LABELS THEN "ValueError"
                 ELSE IF ~opened THEN "RuntimeError"
                 ELSE "read"
    /\ samples' = <<>>
    /\ recording' = FALSE
    /\ UNCHANGED <<gesture, num_samples, mouse_clicked, click_xy, results, frames,
                   csv_file, writes>>
    /\ UNCHANGED <<extractVars, callVars, generatorVars, mergeVars, trainerVars>>

\* mouse_callback, lines 39-44: a left button press at some point of the
\* window; HighGUI delivers window events inside waitKey (line 221), before
\* the key is returned
MouseCallback ==
    /\ rpc = "keys"
    /\ \E p \in ClickPoints :
          /\ mouse_clicked' = TRUE
          /\ click_xy' = p
    /\ UNCHANGED <<rpc, gesture, num_samples, recording, samples, results, frames,
                   csv_file, writes>>
    /\ UNCHANGED <<extractVars, callVars, generatorVars, mergeVars, trainerVars>>

\* lines 138-148: the camera asked whether it is still open, which ends the
\* loop when it is not; a frame read and given to MediaPipe (max_num_hands
\* = 1); a failed read goes back to the top of the loop.  No more than
\* max_frames frames are read.
ReadFrameUpTo(max_frames) ==
    /\ rpc = "read"
    /\ \E opened \in BOOLEAN :
          IF ~opened
          THEN /\ rpc' = "after_loop"
               /\ UNCHANGED <<results, frames>>
          ELSE /\ frames < max_frames
               /\ \E ret \in BOOLEAN :
                     IF ~ret
                     THEN UNCHANGED <<rpc, results, frames>>
                     ELSE /\ results' \in {<<>>} \cup {<<h>> : h \in RecorderHands}
                          /\ frames' = frames + 1
                          /\ rpc' = "clicks"
    /\ UNCHANGED <<gesture, num_samples, recording, samples, mouse_clicked, click_xy,
                   csv_file, writes>>
    /\ UNCHANGED <<extractVars, callVars, generatorVars, mergeVars, trainerVars>>

ReadFrame == ReadFrameUpTo(MaxFrames)

\* lines 178-191: a pending click on RECORD/STOP toggles recording, one on
\* SAVE writes the samples if there are any
CheckClicks ==
    /\ rpc = "clicks"
    /\ IF mouse_clicked
       THEN /\ mouse_clicked' = FALSE
            /\ IF is_button_clicked(record_btn, click_xy[1], click_xy[2])
               THEN /\ recording' = ~recording
                    /\ UNCHANGED <<csv_file, writes>>
               ELSE IF is_button_clicked(save_btn, click_xy[1], click_xy[2])
                       /\ samples # <<>>
               THEN /\ csv_file' = save_samples(samples)
                    /\ writes' = writes + 1
                    /\ UNCHANGED recording
               ELSE UNCHANGED <<recording, csv_file, writes>>
       ELSE UNCHANGED <<mouse_clicked, recording, csv_file, writes>>
    /\ rpc' = "hands"
    /\ UNCHANGED <<gesture, num_samples, samples, click_xy, results, frames>>
    /\ UNCHANGED <<extractVars, callVars, generatorVars, mergeVars, trainerVars>>

\* the samples after the loop of lines 195-213 over the first k hands
RECURSIVE append_hands(_, _, _, _, _)
append_hands(smpls, hands, k, name, now) ==
    IF k = 0 THEN smpls
    ELSE Append(append_hands(smpls, hands, k - 1, name, now),
                [gesture |-> name,
                 features |-> extract_features_from_mediapipe(hands[k]),
                 timestamp |-> isoformat(now)])

\* mutant: the test of line 200 left out
ProcessHands_always ==
    /\ rpc = "hands"
    /\ samples' = append_hands(samples, results, Len(results), gesture, frames)
    /\ rpc' = "keys"
    /\ UNCHANGED <<gesture, num_samples, recording, mouse_clicked, click_xy, results,
                   frames, csv_file, writes>>
    /\ UNCHANGED <<extractVars, callVars, generatorVars, mergeVars, trainerVars>>

\* lines 194-215: while recording, one sample appended for each hand found
ProcessHands ==
    /\ rpc = "hands"
    /\ samples' = IF recording
                  THEN append_hands(samples, results, Len(results), gesture, frames)
                  ELSE samples
    /\ rpc' = "keys"
    /\ UNCHANGED <<gesture, num_samples, recording, mouse_clicked, click_xy, results,
                   frames, csv_file, writes>>
    /\ UNCHANGED <<extractVars, callVars, generatorVars, mergeVars, trainerVars>>

\* lines 221-238: the key pressed during waitKey; the test of the sample
\* count is the last branch of the chain
CheckKeys ==
    /\ rpc = "keys"
    /\ \E key \in Keys :
          IF key = "q"
          THEN /\ rpc' = "after_loop"
               /\ UNCHANGED <<recording, csv_file, writes>>
          ELSE /\ rpc' = "read"
               /\ IF key = "r"
                  THEN /\ recording' = ~recording
                       /\ UNCHANGED <<csv_file, writes>>
                  ELSE IF key = "s"
                  THEN IF samples # <<>>
                       THEN /\ csv_file' = save_samples(samples)
                            /\ writes' = writes + 1
                            /\ UNCHANGED recording
                       ELSE UNCHANGED <<recording, csv_file, writes>>
                  ELSE IF Len(samples) >= num_samples
                  THEN /\ recording' = FALSE
                       /\ UNCHANGED <<csv_file, writes>>
                  ELSE UNCHANGED <<recording, csv_file, writes>>
    /\ UNCHANGED <<gesture, num_samples, samples, mouse_clicked, click_xy, results,
                   frames>>
    /\ UNCHANGED <<extractVars, callVars, generatorVars, mergeVars, trainerVars>>

\* lines 240-245: after the loop, the samples are written if there are any
AfterLoop ==
    /\ rpc = "after_loop"
    /\ IF samples # <<>>
       THEN /\ csv_file' = save_samples(samples)
            /\ writes' = writes + 1
       ELSE UNCHANGED <<csv_file, writes>>
    /\ rpc' = "done"
    /\ UNCHANGED <<gesture, num_samples, recording, samples, mouse_clicked, click_xy,
                   results, frames>>
    /\ UNCHANGED <<extractVars, callVars, generatorVars, mergeVars, trainerVars>>

NextRecorder ==
    \/ StartRecord
    \/ MouseCallback
    \/ ReadFrame
    \/ CheckClicks
    \/ ProcessHands
    \/ CheckKeys
    \/ AfterLoop

SpecRecorder == InitRecorder /\ [][NextRecorder]_vars

\* -------------------------------------------------------- the generator
\* generate_synthetic_data.py.  A drawn number is kept as the bounds of its
\* uniform distribution, in hundredths, and its position in the stream of
\* the seeded generator.
MaxRows == 2

\* the order of the dict generators, lines 214-220
GESTURES == <<"open_hand", "fist", "pinch", "point", "thumbs_up">>

\* np.random.uniform(low, high): the draw numbered n
draw(low, high, n) == [low |-> low, high |-> high, draw |-> n]

\* np.random.uniform(low, high, size): size draws in a row
uniform(low, high, size, first) ==
    [i \in 0..(size - 1) |-> draw(low, high, first + i)]

\* the body of the loop of generate_open_hand, lines 37-47
open_hand_body(first) ==
    [inter_joint |-> uniform(15, 25, 20, first),
     fingertip |-> uniform(70, 100, 5, first + 20),
     angles |-> uniform(250, 300, 5, first + 25),
     pinch |-> uniform(40, 70, 1, first + 30)]

\* the body of the loop of generate_fist, lines 62-72
fist_body(first) ==
    [inter_joint |-> uniform(8, 15, 20, first),
     fingertip |-> uniform(20, 40, 5, first + 20),
     angles |-> uniform(50, 150, 5, first + 25),
     pinch |-> uniform(10, 30, 1, first + 30)]

\* the body of the loop of generate_pinch, lines 87-111
pinch_body(first) ==
    [inter_joint |-> AConcat(uniform(15, 22, 8, first), uniform(8, 14, 12, first + 8)),
     fingertip |->
          Arr(<<draw(50, 70, first + 20),
               draw(50, 70, first + 21),
               draw(20, 40, first + 22),
               draw(20, 40, first + 23),
               draw(20, 40, first + 24)>>),
     angles |->
          Arr(<<draw(200, 280, first + 25),
               draw(200, 280, first + 26),
               draw(50, 150, first + 27),
               draw(50, 150, first + 28),
               draw(50, 150, first + 29)>>),
     pinch |-> uniform(1, 8, 1, first + 30)]

\* the body of the loop of generate_point, lines 126-151
point_body(first) ==
    [inter_joint |-> AConcat(AConcat(uniform(10, 18, 4, first),
                                     uniform(18, 24, 4, first + 4)),
                             uniform(8, 14, 12, first + 8)),
     fingertip |->
          Arr(<<draw(40, 60, first + 20),
               draw(70, 90, first + 21),
               draw(20, 40, first + 22),
               draw(20, 40, first + 23),
               draw(20, 40, first + 24)>>),
     angles |->
          Arr(<<draw(150, 220, first + 25),
               draw(250, 300, first + 26),
               draw(50, 150, first + 27),
               draw(50, 150, first + 28),
               draw(50, 150, first + 29)>>),
     pinch |-> uniform(30, 50, 1, first + 30)]

\* the body of the loop of generate_thumbs_up, lines 165-189
thumbs_up_body(first) ==
    [inter_joint |-> AConcat(uniform(18, 25, 4, first), uniform(8, 14, 16, first + 4)),
     fingertip |->
          Arr(<<draw(70, 90, first + 20),
               draw(20, 40, first + 21),
               draw(20, 40, first + 22),
               draw(20, 40, first + 23),
               draw(20, 40, first + 24)>>),
     angles |->
          Arr(<<draw(250, 300, first + 25),
               draw(50, 150, first + 26),
               draw(50, 150, first + 27),
               draw(50, 150, first + 28),
               draw(50, 150, first + 29)>>),
     pinch |-> uniform(50, 80, 1, first + 30)]

\* the loop body of the generator of one gesture
loop_body(name, first) ==
    CASE name = "open_hand" -> open_hand_body(first)
      [] name = "fist" -> fist_body(first)
      [] name = "pinch" -> pinch_body(first)
      [] name = "point" -> point_body(first)
      [] name = "thumbs_up" -> thumbs_up_body(first)

\* mutant: the angles put before the fingertip distances
concatenate_groups_swapped(g) ==
    AConcat(AConcat(AConcat(g.inter_joint, g.angles), g.fingertip), g.pinch)

\* np.concatenate([inter_joint, fingertip, angles, pinch])
concatenate_groups(g) ==
    AConcat(AConcat(AConcat(g.inter_joint, g.fingertip), g.angles), g.pinch)

\* generator_func(n_samples): one feature vector for each pass of the loop,
\* each pass drawing on from where the one before stopped
generator_func(name, n_samples, first) ==
    LET per_sample == ALen(concatenate_groups(loop_body(name, first)))
    IN  [r \in 0..(n_samples - 1) |->
            concatenate_groups(loop_body(name, first + r * per_sample))]

\* the header row of line 233
generator_header ==
    <<"gesture">> \o [i \in 1..31 |-> "feature_" \o ToString(i - 1)] \o <<"timestamp">>

\* the file written for one gesture, lines 228-239; the clock of the
\* timestamps moves on with every row
generated_file(name, n_samples, first, clock) ==
    LET feats == generator_func(name, n_samples, first)
    IN  [header |-> generator_header,
         rows |-> [r \in 1..n_samples |->
                      writerow(name, ToList(feats[r - 1]), isoformat(clock + r))]]

\* the default of --seed
Seeds == {42}

\* the generator's variables before main runs it
GeneratorAtStart ==
    /\ gpc = "start"
    /\ seed \in Seeds
    /\ samples_per_gesture \in 0..MaxRows
    /\ rng = 0
    /\ gen_next = 0
    /\ gen_file = NoFile

\* __init__ (np.random.seed) and lines 207-220 of generate_dataset
StartGenerator ==
    /\ gpc = "start"
    /\ rng' = 0
    /\ gen_next' = 0
    /\ gpc' = "files"
    /\ UNCHANGED <<seed, samples_per_gesture, gen_file>>
    /\ UNCHANGED <<extractVars, callVars, recorderVars, mergeVars, trainerVars>>

\* one pass of the loop of lines 222-242: the features of the next gesture
\* drawn and its file written
GenerateFile ==
    /\ gpc = "files"
    /\ LET name == GESTURES[gen_next + 1]
           file == generated_file(name, samples_per_gesture, rng,
                                  gen_next * samples_per_gesture)
       IN  /\ gen_file' = file
           /\ rng' = rng + samples_per_gesture * (Len(file.header) - 2)
    /\ gen_next' = gen_next + 1
    /\ gpc' = IF gen_next + 1 = Len(GESTURES) THEN "done" ELSE "files"
    /\ UNCHANGED <<seed, samples_per_gesture>>
    /\ UNCHANGED <<extractVars, callVars, recorderVars, mergeVars, trainerVars>>

\* ------------------------------------------------ the readers of the files
\* pd.read_csv: the first row names the columns; a column of numbers is
\* parsed, field by field, by the converter of the build; the label and
\* the timestamp columns stay text
read_csv(file) ==
    [columns |-> file.header,
     rows |-> [r \in 1..Len(file.rows) |->
                  [k \in 1..Len(file.rows[r]) |->
                      IF k = 1 \/ k = Len(file.rows[r])
                      THEN file.rows[r][k]
                      ELSE from_text(file.rows[r][k], fused)]]]

\* df[cols].values: the named columns, in the order of cols
select_columns(df, cols) ==
    [r \in 1..Len(df.rows) |->
        [i \in 1..Len(cols) |->
            df.rows[r][CHOOSE k \in 1..Len(df.columns) : df.columns[k] = cols[i]]]]

\* train_classifier.py, load_data, lines 74-75
trainer_feature_cols == [i \in 1..31 |-> "feature_" \o ToString(i - 1)]

trainer_X(file) == select_columns(read_csv(file), trainer_feature_cols)

\* test_model.py, test_on_dataset, lines 68-69
tester_feature_cols == [i \in 1..31 |-> "feature_" \o ToString(i - 1)]

\* the default of n_samples, line 52
tester_n_samples == 10

\* the draws df.sample(n=min(n_samples, len(df))) can make, line 66: so many
\* different rows in any order; the draw is not seeded
SampleDraws(df, n_samples) ==
    LET n == IF n_samples < Len(df.rows) THEN n_samples ELSE Len(df.rows)
    IN  {d \in [1..n -> 1..Len(df.rows)] :
            \A i, j \in 1..n : d[i] = d[j] => i = j}

\* the rows drawn, in the order drawn
sample_rows(df, d) ==
    [columns |-> df.columns, rows |-> [i \in 1..Len(d) |-> df.rows[d[i]]]]

\* lines 63-69: X for the draw d
tester_X(file, d) ==
    select_columns(sample_rows(read_csv(file), d), tester_feature_cols)

\* ----------------------------------------------- the files of a session
\* The generator and the recorder are two programs that write to the data
\* directory; neither waits for the other.
\* the frames read by the recorder in such a session
MaxFileFrames == 2

InitFiles ==
    /\ NoExtractCall
    /\ fused = FALSE
    /\ NoCallers
    /\ RecorderAtStart
    /\ gesture \in GESTURE_LABELS
    /\ num_samples = MaxTarget
    /\ GeneratorAtStart
    /\ NoMerge
    /\ NoTrainer

ReadFrameInSession == ReadFrameUpTo(MaxFileFrames)

NextFiles ==
    \/ StartGenerator
    \/ GenerateFile
    \/ StartRecord
    \/ MouseCallback
    \/ ReadFrameInSession
    \/ CheckClicks
    \/ ProcessHands
    \/ CheckKeys
    \/ AfterLoop

SpecFiles == InitFiles /\ [][NextFiles]_vars

\* ------------------------------------------------ merge_dataset.py
\* merge_gesture_datasets reads every CSV file of the input directory, puts
\* the rows together, shuffles them and writes them to the output file.
\*   start   lines 31-48   the files found; return if there are none
\*   loop    lines 50-63   one file read and counted
\*   concat  lines 65-75   the frames put together, shuffled, written
\*   report  lines 77-94   the counts and the balance of the classes printed

\* the longest input directory tried
MaxFiles == 2

\* the double next below 1.0, 0.9999999999999999: feature 8 of extract for
\* many poses
BelowOne64 == F64Sub(One64, F64Round(FALSE, <<1>>, -MantissaBits))

\* 2 + 2^-48 = 2.0000000000000036, a double whose text reads back as
\* itself with fused multiply-add and as 2.000000000000004 without
AboveTwo64 == F64Add(F64FromInt(2), F64Round(FALSE, <<1>>, -48))

\* feature 8 of the rows tried: 0.9999999999999999 in row 1, the sum
\* 0.1 + 0.2 = 0.30000000000000004 in row 4, 1.0 in the others
session_palm(id) ==
    CASE id = 1 -> BelowOne64
      [] id = 4 -> F64Add(F64Div(One64, F64FromInt(10)), F64Div(One64, F64FromInt(5)))
      [] OTHER -> One64

\* the 31 numbers of row id: doubles that differ from row to row
session_features(id) ==
    [k \in 1..31 |-> IF k = 9 THEN session_palm(id)
                     ELSE IF k = 1 /\ id = 2 THEN AboveTwo64
                     ELSE F64FromInt(10 * id + k)]

\* a row as the recorder and the generator write it: the label, 31 numbers,
\* the timestamp
session_row(label, id) == writerow(label, session_features(id), isoformat(id))

\* the files tried: two recorded sessions, a file with rows of two labels,
\* a file with a header and no row, a file of zero bytes, and a CSV file of
\* another kind, without a gesture column
MergeFiles ==
    {[header |-> recorder_header,
      rows |-> <<session_row("fist", 1), session_row("fist", 2)>>],
     [header |-> recorder_header, rows |-> <<session_row("pinch", 3)>>],
     [header |-> recorder_header,
      rows |-> <<session_row("point", 4), session_row("fist", 5)>>],
     [header |-> recorder_header, rows |-> <<>>],
     NoFile,
     [header |-> <<"name", "timestamp">>, rows |-> <<<<"notes", isoformat(6)>>>>]}

\* pd.read_csv raises EmptyDataError on a file without a header row
read_csv_raises(file) == file.header = <<>>

\* the names in a header
Names(columns) == {columns[k] : k \in 1..Len(columns)}

\* the position of a column
ColumnAt(columns, name) == CHOOSE k \in 1..Len(columns) : columns[k] = name

\* len(df)
FrameLen(df) == Len(df.rows)

\* df['gesture'].iloc[0]
first_gesture(df) == df.rows[1][ColumnAt(df.columns, "gesture")]

\* line 56: the label the rows of a file are counted under
counted_gesture(df) == IF FrameLen(df) > 0 THEN first_gesture(df) ELSE "unknown"

\* line 57: gesture_counts[gesture] = gesture_counts.get(gesture, 0) + len(df)
count_gesture(counts, label, n) ==
    [g \in DOMAIN counts \cup {label} |->
        IF g = label
        THEN (IF g \in DOMAIN counts THEN counts[g] ELSE 0) + n
        ELSE counts[g]]

\* the columns of pd.concat: every column of every frame, in the order met
RECURSIVE concat_columns(_)
concat_columns(dfs) ==
    IF dfs = <<>> THEN <<>>
    ELSE LET before == concat_columns(SubSeq(dfs, 1, Len(dfs) - 1))
             last == dfs[Len(dfs)].columns
         IN  before \o SelectSeq(last, LAMBDA c : c \notin Names(before))

\* a row of a frame under its column names
named_row(df, r) ==
    [c \in Names(df.columns) |-> df.rows[r][ColumnAt(df.columns, c)]]

\* the rows of pd.concat(dfs, ignore_index=True): the rows of the frames one
\* after the other, numbered anew; a column a frame lacks is missing (NaN)
RECURSIVE concat_rows(_)
concat_rows(dfs) ==
    IF dfs = <<>> THEN <<>>
    ELSE LET df == dfs[Len(dfs)]
         IN  concat_rows(SubSeq(dfs, 1, Len(dfs) - 1))
                 \o [r \in 1..FrameLen(df) |-> named_row(df, r)]

\* pd.concat raises ValueError on an empty list
concat_raises(dfs) == dfs = <<>>

concat(dfs) == [columns |-> concat_columns(dfs), rows |-> concat_rows(dfs)]

\* np.random.RandomState(42).permutation(n), the order sample(frac=1,
\* random_state=42) draws the rows in, for n up to 8 (positions from 1)
permutation_42 ==
    <<<<1>>,
      <<2, 1>>,
      <<1, 2, 3>>,
      <<2, 4, 1, 3>>,
      <<2, 5, 3, 1, 4>>,
      <<1, 2, 6, 3, 5, 4>>,
      <<1, 2, 6, 3, 5, 4, 7>>,
      <<2, 6, 1, 8, 3, 5, 4, 7>>>>

\* line 70: merged_df.sample(frac=1, random_state=42).reset_index(drop=True)
sample_all(df) ==
    [columns |-> df.columns,
     rows |-> [i \in 1..Len(df.rows) |-> df.rows[permutation_42[Len(df.rows)][i]]]]

\* the columns of numbers
FeatureNames == {recorder_header[k] : k \in 2..32}

\* to_csv(index=False): the header row, then a row for every row of the
\* frame; a number as text, a missing value as the empty string
to_csv(df) ==
    [header |-> df.columns,
     rows |-> [r \in 1..Len(df.rows) |->
                  [k \in 1..Len(df.columns) |->
                      LET c == df.columns[k]
                      IN  IF c \notin DOMAIN df.rows[r] THEN ""
                          ELSE IF c \in FeatureNames THEN csv_text(df.rows[r][c])
                          ELSE df.rows[r][c]]]]

\* min(counts) of line 88
MinCount(counts) ==
    CHOOSE n \in {counts[g] : g \in DOMAIN counts} :
        \A g \in DOMAIN counts : n <= counts[g]

\* the input directories tried: up to MaxFiles files in any order
MergeAtStart ==
    /\ mpc = "start"
    /\ \E n \in 0..MaxFiles : csv_files \in [1..n -> MergeFiles]
    /\ shuffle \in BOOLEAN
    /\ midx = 1
    /\ dataframes = <<>>
    /\ gesture_counts = Unset
    /\ load_errors = <<>>
    /\ output_file = <<>>
    /\ merror = "none"

InitMerge ==
    /\ NoExtractCall
    /\ fused \in BOOLEAN
    /\ NoCallers
    /\ NoRecorder
    /\ NoGenerator
    /\ NoTrainer
    /\ MergeAtStart

\* lines 31-48: glob; without a CSV file the function returns
StartMerge ==
    /\ mpc = "start"
    /\ mpc' = IF csv_files = <<>> THEN "returned" ELSE "loop"
    /\ UNCHANGED <<csv_files, shuffle, midx, dataframes, gesture_counts, load_errors,
                   output_file, merror>>
    /\ UNCHANGED <<extractVars, callVars, recorderVars, generatorVars, trainerVars>>

\* lines 50-63, one file: read_csv, the frame appended, its rows counted
\* under the label of its first row; an exception of any of these is
\* caught and reported, and the loop goes on
LoadFile ==
    /\ mpc = "loop"
    /\ LET file == csv_files[midx]
       IN  IF read_csv_raises(file)
           THEN /\ load_errors' = Append(load_errors, midx)
                /\ UNCHANGED <<dataframes, gesture_counts>>
           ELSE LET df == read_csv(file)
                IN  /\ dataframes' = Append(dataframes, df)
                    /\ IF FrameLen(df) > 0 /\ "gesture" \notin Names(df.columns)
                       THEN /\ load_errors' = Append(load_errors, midx)
                            /\ UNCHANGED gesture_counts
                       ELSE /\ gesture_counts' =
                                   count_gesture(gesture_counts, counted_gesture(df),
                                                 FrameLen(df))
                            /\ UNCHANGED load_errors
    /\ midx' = midx + 1
    /\ mpc' = IF midx = Len(csv_files) THEN "concat" ELSE "loop"
    /\ UNCHANGED <<csv_files, shuffle, output_file, merror>>
    /\ UNCHANGED <<extractVars, callVars, recorderVars, generatorVars, trainerVars>>

\* lines 65-75: the frames put together, shuffled if asked, and written
ConcatFrames ==
    /\ mpc = "concat"
    /\ IF concat_raises(dataframes)
       THEN /\ mpc' = "raised"
            /\ merror' = "ValueError"
            /\ UNCHANGED output_file
       ELSE LET merged_df == concat(dataframes)
                shuffled == IF shuffle THEN sample_all(merged_df) ELSE merged_df
            IN  /\ output_file' = <<to_csv(shuffled)>>
                /\ mpc' = "report"
                /\ UNCHANGED merror
    /\ UNCHANGED <<csv_files, shuffle, midx, dataframes, gesture_counts, load_errors>>
    /\ UNCHANGED <<extractVars, callVars, recorderVars, generatorVars, trainerVars>>

\* lines 77-94, with verbose on: the counts printed, then with more than
\* one label max(counts) / min(counts), a division by zero when a label
\* has the count 0
Report ==
    /\ mpc = "report"
    /\ IF Cardinality(DOMAIN gesture_counts) > 1 /\ MinCount(gesture_counts) = 0
       THEN /\ mpc' = "raised"
            /\ merror' = "ZeroDivisionError"
       ELSE /\ mpc' = "returned"
            /\ UNCHANGED merror
    /\ UNCHANGED <<csv_files, shuffle, midx, dataframes, gesture_counts, load_errors,
                   output_file>>
    /\ UNCHANGED <<extractVars, callVars, recorderVars, generatorVars, trainerVars>>

NextMerge ==
    \/ StartMerge
    \/ LoadFile
    \/ ConcatFrames
    \/ Report

SpecMerge == InitMerge /\ [][NextMerge]_vars

\* ------------------------------------------------ train_classifier.py
\* The script builds a GestureClassifierTrainer, loads the data, trains,
\* evaluates, exports to ONNX and pickles. main trains the one model that
\* --model names; a caller of the class may also train both with train().
\* The models directory outlives a run and is shared by the runs: the
\* script is run more than once, and a run is started while another waits
\* in plt.show() or anywhere else.

\* the runs of the script in a session
MaxRuns == 2

\* line 51: the keys of self.models, in the order of the dict
ModelKeys == <<"knn", "rf">>

\* Python's None
None == [type |-> "NoneType"]

\* the number of classes in a file that holds every gesture
NClasses == Len(GESTURES)

\* the files at data_path tried: none, and files with the same number of
\* rows for each of the five gestures; the numbers are 1, or multiples of
\* the number of classes, which a stratified split divides evenly
PerGesture == {1, 5, 10}

DataFiles ==
    {[exists |-> FALSE, per_gesture |-> 0]}
        \cup {[exists |-> TRUE, per_gesture |-> c] : c \in PerGesture}

\* the callers: main with --model knn or --model rf, lines 276-292, and a
\* caller that uses train() and the defaults of the methods
TrainerArgs ==
    {[caller |-> "main", model |-> "knn"],
     [caller |-> "main", model |-> "rf"],
     [caller |-> "api", model |-> "both"]}

\* lines 39-56: __init__
trainer_init ==
    [X_train |-> None, X_test |-> None, y_train |-> None, y_test |-> None,
     models |-> [i \in {"knn", "rf"} |-> None],
     metrics |-> [accuracy |-> [i \in {"knn", "rf"} |-> None],
                  cv_score |-> [i \in {"knn", "rf"} |-> None],
                  cm |-> [i \in {"knn", "rf"} |-> None]]]

\* math.ceil(test_size * n_samples) with test_size = 0.2, the default of
\* --test-size, for n_samples a multiple of 5
n_test_of(n_samples) == n_samples \div 5

\* train_test_split(..., stratify=y) rejects a class with one member and a
\* train or test part smaller than the number of classes
split_raises(data) ==
    LET n_samples == NClasses * data.per_gesture
        n_test == n_test_of(n_samples)
        n_train == n_samples - n_test
    IN  \/ data.per_gesture < 2
        \/ n_train < NClasses
        \/ n_test < NClasses

\* lines 58-93: load_data; the exception it raises, or "none"
load_data_error(data) ==
    IF ~data.exists THEN "FileNotFoundError"
    ELSE IF split_raises(data) THEN "ValueError"
    ELSE "none"

\* lines 74-81: the parts of the split, as the number of rows and the
\* number of rows of every class
load_data(t, data) ==
    LET n_samples == NClasses * data.per_gesture
        n_test == n_test_of(n_samples)
        n_train == n_samples - n_test
    IN  [t EXCEPT !.X_train = [rows |-> n_train],
                  !.X_test = [rows |-> n_test],
                  !.y_train = [rows |-> n_train, per_class |-> n_train \div NClasses],
                  !.y_test = [rows |-> n_test, per_class |-> n_test \div NClasses]]

\* the defaults of --k, --trees and --depth, and of the methods
default_k == 5
default_trees == 100
default_depth == 10

\* lines 99-111: train_knn
train_knn(t, n_neighbors) ==
    [t EXCEPT !.models["knn"] =
        [type |-> "KNeighborsClassifier", n_neighbors |-> n_neighbors,
         fitted_on |-> t.X_train.rows]]

\* lines 113-130: train_random_forest
train_random_forest(t, n_estimators, max_depth) ==
    [t EXCEPT !.models["rf"] =
        [type |-> "RandomForestClassifier", n_estimators |-> n_estimators,
         max_depth |-> max_depth, fitted_on |-> t.X_train.rows]]

\* lines 95-97: train
train(t, n_neighbors, n_estimators, max_depth) ==
    train_random_forest(train_knn(t, n_neighbors), n_estimators, max_depth)

\* lines 282-285: the model main trains
main_train(t, model) ==
    IF model = "knn"
    THEN train_knn(t, default_k)
    ELSE train_random_forest(t, default_trees, default_depth)

\* predict of a fitted model: k-NN needs n_neighbors rows to have been
\* fitted on
predict_raises(model) ==
    /\ model.type = "KNeighborsClassifier"
    /\ model.n_neighbors > model.fitted_on

\* cross_val_score(..., cv=5): the stratified 5-fold split is rejected when
\* every class has fewer than 5 members
cv_folds == 5

cross_val_raises(y_train) == y_train.per_class < cv_folds

\* lines 145-163 for the key i of the loop of line 141: the metrics after
\* them and the exception raised. The test len(self.models) == 0 of line
\* 142 is never true, as the dict always has its two keys; a key whose
\* model is None is evaluated like any other.
evaluate_key(t, i) ==
    LET scored == [t.metrics EXCEPT !.accuracy[i] = [accuracy_of |-> i]]
    IN  IF t.models[i] = None
        THEN [metrics |-> t.metrics, error |-> "AttributeError"]
        ELSE IF predict_raises(t.models[i])
        THEN [metrics |-> t.metrics, error |-> "ValueError"]
        ELSE IF cross_val_raises(t.y_train)
        THEN [metrics |-> scored, error |-> "ValueError"]
        ELSE [metrics |-> [scored EXCEPT !.cv_score[i] = [cv_score_of |-> i],
                                         !.cm[i] = [cm_of |-> i]],
              error |-> "none"]

\* the loops of evaluate, line 141, and of _plot_confusion_matrix, line
\* 173, before the first key: key and plot count the keys each has begun
loops_at_start == [key |-> 0, plot |-> 0]

\* the parameters of export_onnx, line 196, and of save_pickle, line 232
export_onnx_params == {"output_dir"}
save_pickle_params == {"output_dir"}

\* the keyword the caller passes: main passes output_path, lines 291-292
export_keyword(caller) == IF caller = "main" THEN "output_path" ELSE "output_dir"

\* a call with a keyword the function does not have raises TypeError
call_raises(params, keyword) == keyword \notin params

\* lines 208-230, from the key at position k on: convert_sklearn rejects
\* None, a model is written to gesture_classifier_<key>.onnx
RECURSIVE export_from(_, _, _)
export_from(t, k, st) ==
    IF k > Len(ModelKeys) THEN st
    ELSE LET i == ModelKeys[k]
         IN  IF t.models[i] = None
             THEN [st EXCEPT !.error = "RuntimeError"]
             ELSE export_from(t, k + 1,
                      [st EXCEPT !.files = @ \cup {"gesture_classifier_" \o i \o ".onnx"}])

\* lines 196-230: export_onnx
export_onnx(t, files) == export_from(t, 1, [files |-> files, error |-> "none"])

\* lines 232-249: save_pickle; pickle.dump writes whatever the entry is,
\* None too
save_pickle(t, files) ==
    files \cup {"gesture_classifier_" \o ModelKeys[k] \o ".pkl" : k \in 1..Len(ModelKeys)}

\* line 295: accuracy*100 with the dict that evaluate returns
print_raises(accuracy) == accuracy \notin {[accuracy_of |-> i] : i \in {"knn", "rf"}}

\* before the first run the models directory is empty
TrainerAtStart ==
    /\ tpc = <<>>
    /\ targs = <<>>
    /\ tdata = <<>>
    /\ trainer = <<>>
    /\ teval = <<>>
    /\ models_dir = [plots |-> 0, files |-> {}]
    /\ truns = 0
    /\ terror = <<>>

InitTrainer ==
    /\ NoExtractCall
    /\ fused = FALSE
    /\ NoCallers
    /\ NoRecorder
    /\ NoGenerator
    /\ NoMerge
    /\ TrainerAtStart

\* the runs started so far
Runs == 1..truns

\* run r is at the step named and has not raised
RunAt(r, step) == tpc[r] = step /\ terror[r] = "none"

\* a run is started: lines 251-276, or the caller's GestureClassifierTrainer().
\* Every run is a process of its own: it is started whether or not the
\* runs before it are over, and shares the models directory with them.
StartTrainer ==
    /\ truns < MaxRuns
    /\ truns' = truns + 1
    /\ \E a \in TrainerArgs : targs' = Append(targs, a)
    /\ \E d \in DataFiles : tdata' = Append(tdata, d)
    /\ trainer' = Append(trainer, trainer_init)
    /\ teval' = Append(teval, loops_at_start)
    /\ terror' = Append(terror, "none")
    /\ tpc' = Append(tpc, "load_data")
    /\ UNCHANGED models_dir
    /\ UNCHANGED <<extractVars, callVars, recorderVars, generatorVars, mergeVars>>

\* line 279
LoadData ==
    /\ \E r \in Runs :
          /\ RunAt(r, "load_data")
          /\ IF load_data_error(tdata[r]) # "none"
             THEN /\ terror' = [terror EXCEPT ![r] = load_data_error(tdata[r])]
                  /\ UNCHANGED <<tpc, trainer>>
             ELSE /\ trainer' = [trainer EXCEPT ![r] = load_data(@, tdata[r])]
                  /\ tpc' = [tpc EXCEPT ![r] = "train"]
                  /\ UNCHANGED terror
    /\ UNCHANGED <<targs, tdata, teval, models_dir, truns>>
    /\ UNCHANGED <<extractVars, callVars, recorderVars, generatorVars, mergeVars>>

\* lines 282-285, or train() with its defaults
Train ==
    /\ \E r \in Runs :
          /\ RunAt(r, "train")
          /\ trainer' = [trainer EXCEPT ![r] =
                            IF targs[r].caller = "main"
                            THEN main_train(@, targs[r].model)
                            ELSE train(@, default_k, default_trees, default_depth)]
          /\ tpc' = [tpc EXCEPT ![r] = "evaluate"]
    /\ UNCHANGED <<targs, tdata, teval, models_dir, truns, terror>>
    /\ UNCHANGED <<extractVars, callVars, recorderVars, generatorVars, mergeVars>>

\* line 288, lines 141-164 for the next key of self.models: the metrics of
\* the key are set and _plot_confusion_matrix is entered; what was done
\* before an exception stays done
EvaluateModel ==
    /\ \E r \in Runs :
          /\ RunAt(r, "evaluate")
          /\ LET k == teval[r].key + 1
                 done == evaluate_key(trainer[r], ModelKeys[k])
             IN  /\ trainer' = [trainer EXCEPT ![r].metrics = done.metrics]
                 /\ teval' = [teval EXCEPT ![r] = [key |-> k, plot |-> 0]]
                 /\ terror' = [terror EXCEPT ![r] = done.error]
                 /\ tpc' = [tpc EXCEPT ![r] = IF done.error = "none" THEN "plot" ELSE @]
    /\ UNCHANGED <<targs, tdata, models_dir, truns>>
    /\ UNCHANGED <<extractVars, callVars, recorderVars, generatorVars, mergeVars>>

\* lines 173-193 for the next key of the loop of _plot_confusion_matrix:
\* the plot is saved to the models directory (the file name carries the
\* key and the time to the second, so plots counts the calls of savefig
\* and not the files: two saves for one key within a second write the same
\* file) and plt.show() opens its window, which with an interactive backend
\* returns when the user closes it
SavePlot ==
    /\ \E r \in Runs :
          /\ RunAt(r, "plot")
          /\ teval' = [teval EXCEPT ![r].plot = @ + 1]
          /\ tpc' = [tpc EXCEPT ![r] = "show"]
    /\ models_dir' = [models_dir EXCEPT !.plots = @ + 1]
    /\ UNCHANGED <<targs, tdata, trainer, truns, terror>>
    /\ UNCHANGED <<extractVars, callVars, recorderVars, generatorVars, mergeVars>>

\* lines 193-194: the window is closed and plt.show() returns; the loop of
\* line 173 goes on to its next key, after its last key the loop of line
\* 141 to its next, and after the last key of that evaluate returns, line
\* 166
ClosePlot ==
    /\ \E r \in Runs :
          /\ RunAt(r, "show")
          /\ tpc' = [tpc EXCEPT ![r] =
                        IF teval[r].plot < Len(ModelKeys) THEN "plot"
                        ELSE IF teval[r].key < Len(ModelKeys) THEN "evaluate"
                        ELSE "export_onnx"]
    /\ UNCHANGED <<targs, tdata, trainer, teval, models_dir, truns, terror>>
    /\ UNCHANGED <<extractVars, callVars, recorderVars, generatorVars, mergeVars>>

\* line 291
ExportOnnx ==
    /\ \E r \in Runs :
          /\ RunAt(r, "export_onnx")
          /\ IF call_raises(export_onnx_params, export_keyword(targs[r].caller))
             THEN /\ terror' = [terror EXCEPT ![r] = "TypeError"]
                  /\ UNCHANGED <<tpc, models_dir>>
             ELSE LET done == export_onnx(trainer[r], models_dir.files)
                  IN  /\ models_dir' = [models_dir EXCEPT !.files = done.files]
                      /\ terror' = [terror EXCEPT ![r] = done.error]
                      /\ tpc' = [tpc EXCEPT ![r] =
                                    IF done.error = "none" THEN "save_pickle" ELSE @]
    /\ UNCHANGED <<targs, tdata, trainer, teval, truns>>
    /\ UNCHANGED <<extractVars, callVars, recorderVars, generatorVars, mergeVars>>

\* line 292
SavePickle ==
    /\ \E r \in Runs :
          /\ RunAt(r, "save_pickle")
          /\ IF call_raises(save_pickle_params, export_keyword(targs[r].caller))
             THEN /\ terror' = [terror EXCEPT ![r] = "TypeError"]
                  /\ UNCHANGED <<tpc, models_dir>>
             ELSE /\ models_dir' = [models_dir EXCEPT !.files = save_pickle(trainer[r], @)]
                  /\ tpc' = [tpc EXCEPT ![r] = "print"]
                  /\ UNCHANGED terror
    /\ UNCHANGED <<targs, tdata, trainer, teval, truns>>
    /\ UNCHANGED <<extractVars, callVars, recorderVars, generatorVars, mergeVars>>

\* lines 294-301: main prints accuracy*100, the other caller is done
Finish ==
    /\ \E r \in Runs :
          /\ RunAt(r, "print")
          /\ IF targs[r].caller = "main" /\ print_raises(trainer[r].metrics.accuracy)
             THEN /\ terror' = [terror EXCEPT ![r] = "TypeError"]
                  /\ UNCHANGED tpc
             ELSE /\ tpc' = [tpc EXCEPT ![r] = "done"]
                  /\ UNCHANGED terror
    /\ UNCHANGED <<targs, tdata, trainer, teval, models_dir, truns>>
    /\ UNCHANGED <<extractVars, callVars, recorderVars, generatorVars, mergeVars>>

NextTrainer ==
    \/ StartTrainer
    \/ LoadData
    \/ Train
    \/ EvaluateModel
    \/ SavePlot
    \/ ClosePlot
    \/ ExportOnnx
    \/ SavePickle
    \/ Finish

SpecTrainer == InitTrainer /\ [][NextTrainer]_vars

\* ------------------------------------------------------- claim vocabulary
\* the call returned a feature vector for a 21 x 3 input
Returned == pc = "returned" /\ ValidShape(landmarks)

\* the clamp of lines 81-82 was taken for the input
PalmClamped == LtEps(palm_size_of(landmarks))

\* the fallback of lines 144-145 was taken for finger f
AngleClamped(f) == angle_degenerate(scaled, FINGERS[f])

\* landmarks + c for an offset c = <<cx, cy, cz>> in lattice units
Translate(hand, c) ==
    [i \in DOMAIN hand |-> [j \in DOMAIN hand[i] |-> Coord(hand[i][j].n + c[j + 1])]]

\* landmarks * s
Scale(hand, s) ==
    [i \in DOMAIN hand |-> [j \in DOMAIN hand[i] |-> Coord(hand[i][j].n * s)]]

\* the offsets tried: along each axis and along a diagonal
Offsets ==
    UNION {{<<a, 0, 0>>, <<0, a, 0>>, <<0, 0, a>>, <<a, -a, a>>} :
              a \in -MaxOffset..MaxOffset}

\* a feature value that is neither inf nor nan
IsFinite(x) == IF "acos" \in DOMAIN x THEN x.acos.den # 0 ELSE x.p # 0

\* the positions where two feature vectors differ
Changed(x, y) == {i \in DOMAIN x : x[i] # y[i]}

\* C1: for every 21 x 3 input, extract returns exactly 31 values (positions
\* 0..30), whichever of the palm-size and angle clamps are taken.
C1_OutputLength ==
    Returned => DOMAIN features = 0..30 /\ ALen(features) = 31

\* a returned call that took the palm clamp, took the angle fallback for one
\* finger and did not take it for another
C1_Witness ==
    /\ Returned
    /\ PalmClamped
    /\ \E f, g \in DOMAIN FINGERS : AngleClamped(f) /\ ~AngleClamped(g)

\* C2: the output is laid out as 20 inter-joint distances (finger f at
\* 4f..4f+3, proximal to distal), 5 fingertip distances (finger f at 20+f),
\* 5 PIP angles (finger f at 25+f) and the pinch distance at 30, finger f
\* being landmarks 4f+1..4f+4.
C2_Layout ==
    Returned =>
        /\ \A f \in 0..4 :
              /\ features[4 * f] = Norm(VSub(scaled[4 * f + 1], scaled[0]))
              /\ \A k \in 1..3 :
                    features[4 * f + k] =
                        Norm(VSub(scaled[4 * f + 1 + k], scaled[4 * f + k]))
              /\ features[20 + f] = Norm(VSub(scaled[4 * f + 4], scaled[0]))
              /\ features[25 + f] = finger_angles[f]
              /\ finger_angles[f] =
                    finger_angle(scaled, Arr(<<4 * f + 1, 4 * f + 2, 4 * f + 3>>))
        /\ features[30] = Norm(VSub(scaled[8], scaled[4]))

\* a returned vector with no collapsed finger and no angle fallback, whose
\* fingertip and angle groups differ position by position
C2_Witness ==
    /\ Returned
    /\ \A f \in 0..4 : features[20 + f] # features[25 + f]
    /\ features[19] # features[20]
    /\ features[24] # features[25]
    /\ features[29] # features[30]
    /\ \A f \in 0..4 : features[4 * f + 3] # Zero /\ features[25 + f] # Zero

\* C3: translation invariance: adding one offset c to all 21 points leaves
\* all 31 features unchanged, clamps included.
C3_TranslationInvariance ==
    Returned => \A c \in Offsets : extract(Translate(landmarks, c)) = features

\* a returned call on a hand whose wrist is not at the origin, with the palm
\* clamp and an angle fallback taken and a nonzero feature
C3_Witness ==
    /\ Returned
    /\ landmarks[WRIST] # [j \in 0..2 |-> Coord(0)]
    /\ PalmClamped
    /\ \E f \in DOMAIN FINGERS : AngleClamped(f)
    /\ \E i \in DOMAIN features : features[i] # Zero

\* C4 as stated: scale invariance for every positive scale factor.
C4_ScaleInvariance_AsStated ==
    Returned => \A s \in 1..MaxScale : extract(Scale(landmarks, s)) = features

\* C4 amended: scaling by s leaves all 31 features unchanged whenever the
\* palm size of the pose and of the scaled pose are both at least 1e-6, so
\* that neither call takes the palm clamp.
C4_ScaleInvariance ==
    Returned =>
        \A s \in 1..MaxScale :
            (~PalmClamped /\ ~LtEps(palm_size_of(Scale(landmarks, s))))
                => extract(Scale(landmarks, s)) = features

\* a returned call on a pose with palm size >= 1e-6, an angle fallback taken
\* and a nonzero pinch distance, with a scale factor other than 1 to try
C4_Witness ==
    /\ Returned
    /\ ~PalmClamped
    /\ \E f \in DOMAIN FINGERS : AngleClamped(f)
    /\ features[30] # Zero
    /\ MaxScale >= 2

\* the displacements of a joint, in lattice units
Deltas == {<<1, 0, 0>>, <<0, -1, 1>>}

\* the hand with landmark i of the index finger moved by d[i]
Displace(hand, d) ==
    [i \in DOMAIN hand |->
        IF i \in DOMAIN d
        THEN [j \in DOMAIN hand[i] |-> Coord(hand[i][j].n + d[i][j + 1])]
        ELSE hand[i]]

IndexDisplacements == [{INDEX[k] : k \in DOMAIN INDEX} -> Deltas]

\* C5 as stated: displacing the index finger's 4 joints leaves every position
\* outside {5, 6, 7, 21, 26} unchanged.
C5_OrderStability_AsStated ==
    Returned =>
        \A d \in IndexDisplacements :
            Changed(features, extract(Displace(landmarks, d))) \subseteq {5, 6, 7, 21, 26}

\* C5 amended: displacing only landmarks 5, 6, 7, 8 can change positions
\* 4, 5, 6, 7 (the index finger's whole inter-joint group, wrist-to-MCP
\* included), 21, 26 and 30 (the pinch distance); every other position is
\* unchanged.
C5_OrderStability ==
    Returned =>
        \A d \in IndexDisplacements :
            Changed(features, extract(Displace(landmarks, d)))
                \subseteq {4, 5, 6, 7, 21, 26, 30}

\* a returned call and a displacement of the 4 index joints that changes all
\* of the positions 4, 5, 6, 7, 21, 26, 30
C5_Witness ==
    /\ Returned
    /\ \E d \in IndexDisplacements :
          Changed(features, extract(Displace(landmarks, d))) = {4, 5, 6, 7, 21, 26, 30}

\* C6: an input that is not 21 x 3 makes extract fail with a ShapeError and
\* return no feature vector.
C6_ShapeError ==
    (~ValidShape(landmarks) /\ pc \in {"returned", "raised"})
        => (pc = "raised" /\ error = "ShapeError" /\ features = Unset)

\* C7 as stated: all outputs finite, and no division by zero or by a value
\* below 1e-6.
C7_Finite_AsStated ==
    ValidShape(landmarks) =>
        /\ \A d \in divisions : d.divisor # Zero /\ ~LtEps(d.divisor)
        /\ pc = "returned" => \A i \in DOMAIN features : IsFinite(features[i])

\* C7 amended: for every 21 x 3 input all 31 outputs are finite and no
\* division by zero is performed: the scale divisor is at least 1e-6, and
\* each angle divisor is the product of two norms that are each at least
\* 1e-6 (the product itself can be below 1e-6).
C7_Finite ==
    ValidShape(landmarks) =>
        /\ \A d \in divisions :
              /\ d.divisor # Zero /\ d.divisor.p # 0
              /\ d.site = "scale" => ~LtEps(d.divisor)
              /\ d.site = "angle" =>
                    /\ ~LtEps(Norm(AngleV1(scaled, FINGERS[d.finger])))
                    /\ ~LtEps(Norm(AngleV2(scaled, FINGERS[d.finger])))
        /\ pc = "returned" => \A i \in DOMAIN features : IsFinite(features[i])

\* a returned call on 21 identical points away from the origin
C7_Witness ==
    /\ Returned
    /\ \A i \in DOMAIN landmarks : landmarks[i] = landmarks[WRIST]
    /\ landmarks[WRIST] # [j \in 0..2 |-> Coord(0)]

\* the squared length, in lattice units, of translated point 9 from point 0
PalmSq ==
    (normalized[9][0].n - normalized[0][0].n) * (normalized[9][0].n - normalized[0][0].n)
  + (normalized[9][1].n - normalized[0][1].n) * (normalized[9][1].n - normalized[0][1].n)
  + (normalized[9][2].n - normalized[0][2].n) * (normalized[9][2].n - normalized[0][2].n)

\* the scale stage ran on a 21 x 3 input
Scaled == ValidShape(landmarks) /\ pc \notin {"call", "translated", "raised"}

\* C8: the scale stage divides every coordinate of the translated pose by one
\* scalar: 1.0 when the distance of point 9 from point 0 is below 1e-6 (the
\* pose passes through unchanged), that distance otherwise; it never raises.
C8_ScaleNormalizer ==
    /\ ValidShape(landmarks) => pc # "raised" /\ error = "none"
    /\ Scaled =>
          /\ \E d \in divisions : d.site = "scale"
          /\ \A d \in divisions :
                d.site = "scale" =>
                    d.divisor = IF 4 * PalmSq < TwoEps * TwoEps
                                THEN One
                                ELSE [sq |-> PalmSq, p |-> 1, e |-> 1]
          /\ \A i \in 0..20 : \A j \in 0..2 :
                scaled[i][j] = IF 4 * PalmSq < TwoEps * TwoEps
                               THEN normalized[i][j]
                               ELSE [n |-> normalized[i][j].n, p |-> PalmSq, e |-> 0]

\* the scale stage has run on a pose with a nonzero palm size below 1e-6
C8_Witness ==
    /\ Scaled
    /\ PalmSq > 0
    /\ 4 * PalmSq < TwoEps * TwoEps
    /\ \E i \in 0..20 : scaled[i] # scaled[WRIST]

\* C9: the wrist of the translated pose and of the scaled pose is exactly the
\* origin, and every point i of the translated pose is input[i] - input[0].
C9_WristAtOrigin ==
    /\ (ValidShape(landmarks) /\ pc # "call") =>
          \A j \in 0..2 :
              /\ normalized[WRIST][j].n = 0
              /\ \A i \in 0..20 :
                    normalized[i][j] = Coord(landmarks[i][j].n - landmarks[0][j].n)
    /\ Scaled => \A j \in 0..2 : scaled[WRIST][j].n = 0 /\ scaled[WRIST][j].p # 0

\* the scale stage has run, with the clamped divisor, on a hand whose wrist
\* is not at the origin
C9_Witness ==
    /\ Scaled
    /\ PalmClamped
    /\ landmarks[WRIST] # [j \in 0..2 |-> Coord(0)]
    /\ \E i \in 0..20 : normalized[i] # normalized[WRIST]

\* the angle stage ran on a 21 x 3 input
AnglesDone == ValidShape(landmarks) /\ pc \in {"angles", "pinch", "returned"}

\* v1 or v2 of finger f (landmarks 4f+1, 4f+2, 4f+3) is shorter than 1e-6
ShortVector(f) ==
    \/ LtEps(Norm(VSub(scaled[4 * f + 1], scaled[4 * f + 2])))
    \/ LtEps(Norm(VSub(scaled[4 * f + 3], scaled[4 * f + 2])))

\* C10: a finger with v1 or v2 shorter than 1e-6 gets the angle 0.0 at
\* position 25 + f without any division by its norms; every other finger
\* gets its arccos, by one division.
C10_AngleFallback ==
    /\ AnglesDone =>
          \A f \in 0..4 :
              LET v1 == VSub(scaled[4 * f + 1], scaled[4 * f + 2])
                  v2 == VSub(scaled[4 * f + 3], scaled[4 * f + 2])
                  divs == {d \in divisions : d.site = "angle" /\ d.finger = f}
              IN  /\ ShortVector(f) => finger_angles[f] = Zero /\ divs = {}
                  /\ ~ShortVector(f) =>
                        /\ Cardinality(divs) = 1
                        /\ finger_angles[f] =
                              Arccos(Clip(DotDiv(Dot(v1, v2), MagMul(Norm(v1), Norm(v2)))))
    /\ Returned => \A f \in 0..4 : features[25 + f] = finger_angles[f]

\* a returned call with a finger whose MCP, PIP and DIP coincide, a finger
\* with just one short vector, and a finger with a nonzero angle
C10_Witness ==
    /\ Returned
    /\ \E f, g, h \in 0..4 :
          /\ scaled[4 * f + 1] = scaled[4 * f + 2] /\ scaled[4 * f + 3] = scaled[4 * f + 2]
          /\ ShortVector(g) /\ scaled[4 * g + 3] # scaled[4 * g + 2]
          /\ ~ShortVector(h) /\ features[25 + h] # Zero
          /\ features[25 + f] = Zero /\ features[25 + g] = Zero

\* the wrist-to-tip chain of each finger as the specification lists it
Chains ==
    Arr(<<Arr(<<0, 1, 2, 3, 4>>), Arr(<<0, 5, 6, 7, 8>>), Arr(<<0, 9, 10, 11, 12>>),
          Arr(<<0, 13, 14, 15, 16>>), Arr(<<0, 17, 18, 19, 20>>)>>)

\* the inter-joint stage ran on a 21 x 3 input
InterJointDone ==
    ValidShape(landmarks) /\ pc \notin {"call", "translated", "scaled", "raised"}

\* C11: the inter-joint stage yields 20 values, and the 4 of finger f are the
\* Euclidean distances between consecutive points of its chain (wrist, MCP,
\* PIP, DIP, TIP) in the normalized pose, the chains being (0,1,2,3,4),
\* (0,5,6,7,8), (0,9,10,11,12), (0,13,14,15,16), (0,17,18,19,20).
C11_InterJointChains ==
    InterJointDone =>
        /\ DOMAIN inter_joint_dists = 0..19
        /\ \A f \in 0..4 : \A k \in 0..3 :
              inter_joint_dists[4 * f + k] =
                  Norm(VSub(scaled[Chains[f][k + 1]], scaled[Chains[f][k]]))

\* the inter-joint stage just ran on a hand where the thumb's 4 distances
\* are pairwise different and none is 0, and the wrist is not at the origin
C11_Witness ==
    /\ pc = "inter_joint" /\ ValidShape(landmarks)
    /\ landmarks[WRIST] # [j \in 0..2 |-> Coord(0)]
    /\ \A k \in 0..3 : inter_joint_dists[k] # Zero
    /\ \A k, l \in 0..3 : k # l => inter_joint_dists[k] # inter_joint_dists[l]

\* the pinch stage ran on a 21 x 3 input
PinchDone == ValidShape(landmarks) /\ pc \in {"pinch", "returned"}

\* the 21 x 3 inputs that agree with hand on landmarks 4 and 8 and lead to
\* the same divisor in line 84
SamePinchInputs(hand) ==
    {h \in ValidHands :
        /\ h[THUMB_TIP] = hand[THUMB_TIP]
        /\ h[INDEX_TIP] = hand[INDEX_TIP]
        /\ palm_divisor(normalize_translation(h)) =
              palm_divisor(normalize_translation(hand))}

\* C12: the pinch distance, feature 30, is the Euclidean distance between
\* landmark 4 and landmark 8 of the normalized pose, and no landmark other
\* than 4 and 8 influences it except through the palm-size divisor: inputs
\* with the same landmarks 4 and 8 and the same divisor have the same value.
C12_PinchDistance ==
    /\ PinchDone => pinch_dist = Norm(VSub(scaled[4], scaled[8]))
    /\ Returned =>
          /\ features[30] = pinch_dist
          /\ \A h \in SamePinchInputs(landmarks) : extract(h)[30] = features[30]

\* a returned call with a nonzero pinch distance that differs from the
\* thumb-tip-to-middle-tip distance, and another input with the same
\* landmarks 4 and 8 and divisor but different middle, ring and pinky fingers
C12_Witness ==
    /\ Returned
    /\ features[30] # Zero
    /\ features[30] # Norm(VSub(scaled[4], scaled[12]))
    /\ \E h \in SamePinchInputs(landmarks) :
          /\ h[12] # landmarks[12]
          /\ h[16] # landmarks[16]
          /\ h[20] # landmarks[20]

\* the fingertip stage ran on a 21 x 3 input
FingertipDone ==
    ValidShape(landmarks) /\ pc \in {"fingertip", "angles", "pinch", "returned"}

\* C13: the fingertip distances, features 20..24, are the distances from the
\* normalized fingertips 4, 8, 12, 16, 20 to the normalized wrist, which is
\* the norm of the normalized fingertip itself.
C13_FingertipDistances ==
    /\ FingertipDone =>
          /\ DOMAIN fingertip_dists = 0..4
          /\ \A f \in 0..4 :
                /\ fingertip_dists[f] = Norm(VSub(scaled[4 * f + 4], scaled[0]))
                /\ fingertip_dists[f] = Norm(scaled[4 * f + 4])
    /\ Returned => \A f \in 0..4 : features[20 + f] = fingertip_dists[f]

\* the fingertip stage just ran on a hand with the wrist off the origin,
\* where no fingertip is at the wrist and every fingertip is farther from
\* the wrist than from its finger's MCP or the reverse
C13_Witness ==
    /\ pc = "fingertip" /\ ValidShape(landmarks)
    /\ landmarks[WRIST] # [j \in 0..2 |-> Coord(0)]
    /\ \A f \in 0..4 :
          /\ fingertip_dists[f] # Zero
          /\ fingertip_dists[f] # Norm(VSub(scaled[4 * f + 4], scaled[4 * f + 1]))

\* v and w lie on one line through the origin (their cross product is 0)
Parallel(v, w) ==
    \A i, j \in DOMAIN v : v[i].n * w[j].n = v[j].n * w[i].n

\* a cosine within [-1, 1]
InUnitRange(c) == c.den # 0 /\ c.num <= c.den

\* an angle within [0, pi]
InZeroPi(a) == a = Zero \/ ("acos" \in DOMAIN a /\ InUnitRange(a.acos))

\* C14: for a finger whose v1 = MCP - PIP and v2 = DIP - PIP are both at least
\* 1e-6 long, the angle is acos(clamp(v1.v2 / (|v1| |v2|), -1, 1)): the value
\* given to acos lies in [-1, 1], the angle lies in [0, pi], and it is 0 when
\* v1 and v2 point the same way, pi/2 when they are orthogonal and pi when
\* they point opposite ways (MCP, PIP, DIP on a line, PIP between).
C14_AngleValues ==
    AnglesDone =>
        \A f \in 0..4 :
            LET v1 == VSub(scaled[4 * f + 1], scaled[4 * f + 2])
                v2 == VSub(scaled[4 * f + 3], scaled[4 * f + 2])
                dot == SumProd(v1, v2, 3)
                cos_angle == Clip(DotDiv(Dot(v1, v2), MagMul(Norm(v1), Norm(v2))))
            IN  ~ShortVector(f) =>
                    /\ InUnitRange(cos_angle)
                    /\ finger_angles[f] = Arccos(cos_angle)
                    /\ InZeroPi(finger_angles[f])
                    /\ Parallel(v1, v2) /\ dot > 0 => finger_angles[f] = Zero
                    /\ dot = 0 => finger_angles[f] = HalfPi
                    /\ Parallel(v1, v2) /\ dot < 0 => finger_angles[f] = Pi

\* the angle stage ran on a hand that has, among the fingers that pass the
\* test of line 144, one folded back on itself (angle 0), one bent at a
\* right angle, one straight (angle pi) and one at another angle
C14_Witness ==
    /\ AnglesDone
    /\ \E f, g, h, k \in 0..4 :
          /\ \A x \in {f, g, h, k} : ~ShortVector(x)
          /\ finger_angles[f] = Zero
          /\ finger_angles[g] = HalfPi
          /\ finger_angles[h] = Pi
          /\ finger_angles[k] \notin {Zero, HalfPi, Pi}

\* C17: extract has no side effect on its argument: no stage of a call
\* changes the caller's array, the translation and the scaling each giving a
\* new pose.
C17_ArgumentUnchanged == [][landmarks' = landmarks]_vars

\* a returned call whose translated pose differs from the argument and whose
\* scaled pose differs from the translated one
C17_Witness ==
    /\ Returned
    /\ normalized # landmarks
    /\ scaled # normalized
    /\ ~PalmClamped

\* C15: extract is deterministic and independent of history: two calls with
\* the same input return the same vector, whatever calls were made in between
\* and whether on the same instance or on different ones.
C15_HistoryIndependent ==
    \A i, j \in DOMAIN log :
        log[i].landmarks = log[j].landmarks => log[i].features = log[j].features

\* two returned calls on the same input with a returned call on another
\* input, of another result, between them; once with all three on one
\* instance and once with the two on different instances
C15_Witness ==
    \E i, j, k \in DOMAIN log :
        /\ i < j /\ j < k
        /\ log[i].landmarks = log[k].landmarks
        /\ log[j].landmarks # log[i].landmarks
        /\ log[j].features # log[i].features
        /\ log[i].self # log[k].self
        /\ log[j].self = log[k].self

\* what extract returns for each 21 x 3 input of the callers when the call
\* runs alone from its first stage to its last
AloneResult == [h \in {x \in CallInputs : ValidShape(x)} |-> extract(h)]

\* C16: concurrent calls of extract on independent inputs, interleaved stage
\* by stage, each return the vector the call returns when run alone; the
\* stages share no state: the instances have no attribute at any time and
\* FINGERS and FINGER_TIPS are never changed.
C16_Reentrant ==
    /\ \A t \in Callers :
          calls[t].pc = "returned" => calls[t].features = AloneResult[calls[t].landmarks]
    /\ \A i \in Instances : attrs[i] = NoAttrs

\* both callers inside extract at once, on the same instance and on
\* different inputs, one of them at its last stage and the other before its
\* scaling stage
C16_Witness ==
    /\ calls[1].pc = "pinch"
    /\ calls[2].pc = "translated"
    /\ calls[1].self = calls[2].self
    /\ calls[1].landmarks # calls[2].landmarks
    /\ ValidShape(calls[1].landmarks) /\ ValidShape(calls[2].landmarks)

\* the header row of the schema: gesture, feature_0 .. feature_30, timestamp
SchemaHeader ==
    <<"gesture", "feature_0", "feature_1", "feature_2", "feature_3",
      "feature_4", "feature_5", "feature_6", "feature_7", "feature_8",
      "feature_9", "feature_10", "feature_11", "feature_12", "feature_13",
      "feature_14", "feature_15", "feature_16", "feature_17", "feature_18",
      "feature_19", "feature_20", "feature_21", "feature_22", "feature_23",
      "feature_24", "feature_25", "feature_26", "feature_27", "feature_28",
      "feature_29", "feature_30", "timestamp">>

\* the files written so far that are still in the data directory's model
WrittenFiles == {csv_file, gen_file} \ {NoFile}

\* C18: every CSV file written by the recorder (_save_samples) and by the
\* generator (generate_dataset) has the 33-column header gesture, feature_0,
\* ..., feature_30, timestamp and rows of exactly 33 fields, field 1+i holding
\* feature i of the sample in extractor order (20 inter-joint distances, 5
\* fingertip distances, 5 angles, the pinch distance); the trainer and the
\* tester read exactly the columns feature_0 .. feature_30, in that order
\* (each value of X being what read_csv makes of the text of its field).
C18_CsvSchema ==
    /\ \A file \in WrittenFiles :
          /\ file.header = SchemaHeader
          /\ Len(file.header) = 33
          /\ \A r \in 1..Len(file.rows) : Len(file.rows[r]) = 33
          /\ LET X == trainer_X(file)
             IN  /\ X = [r \in 1..Len(file.rows) |->
                            [i \in 1..31 |-> from_text(file.rows[r][1 + i], fused)]]
                 /\ \A d \in SampleDraws(read_csv(file), tester_n_samples) :
                       tester_X(file, d) = [k \in 1..Len(d) |-> X[d[k]]]
    /\ writes > 0 =>
          /\ Len(csv_file.rows) \in 1..Len(samples)
          /\ \A r \in 1..Len(csv_file.rows) :
                /\ DOMAIN samples[r].features = 0..30
                /\ csv_file.rows[r][1] = gesture
                /\ \A i \in 0..30 :
                      csv_file.rows[r][2 + i] = csv_text(samples[r].features[i])
                /\ csv_file.rows[r][33] = samples[r].timestamp
    /\ gen_file # NoFile =>
          /\ Len(gen_file.rows) = samples_per_gesture
          /\ \A r \in 1..Len(gen_file.rows) :
                LET g == loop_body(GESTURES[gen_next],
                                   rng - (samples_per_gesture - r + 1) * 31)
                    row == gen_file.rows[r]
                IN  /\ row[1] = GESTURES[gen_next]
                    /\ \A k \in 0..19 : row[2 + k] = csv_text(g.inter_joint[k])
                    /\ \A k \in 0..4 : row[22 + k] = csv_text(g.fingertip[k])
                    /\ \A k \in 0..4 : row[27 + k] = csv_text(g.angles[k])
                    /\ row[32] = csv_text(g.pinch[0])

\* the generator has written its last file, with two rows that differ, and
\* the recorder a file with a sample
C18_Witness ==
    /\ gpc = "done"
    /\ Len(gen_file.rows) >= 2
    /\ gen_file.rows[1][2] # gen_file.rows[2][2]
    /\ writes > 0
    /\ Len(csv_file.rows) >= 1

\* C19: in record, self.samples changes only in the hand-processing step of
\* a frame in which recording is on and a hand was found, and then only by
\* appending; a frame whose hands are processed while recording is off
\* leaves len(samples) as it was (a click on RECORD in that same frame has
\* already switched recording on when the hands are processed), and no
\* sample is ever removed or replaced during the session.
C19_AppendOnlyWhenRecording ==
    [][/\ Len(samples') >= Len(samples)
       /\ \A i \in 1..Len(samples) : samples'[i] = samples[i]
       /\ samples' # samples => rpc = "hands" /\ recording /\ results # <<>>
       /\ rpc = "hands" /\ ~recording => Len(samples') = Len(samples)]_vars

\* the hands of a frame were just processed while recording was off, a hand
\* being in the frame, after samples had been collected in earlier frames
C19_Witness ==
    /\ rpc = "keys"
    /\ ~recording
    /\ results # <<>>
    /\ samples # <<>>
    /\ samples[Len(samples)].timestamp.iso < frames

\* C20: in every state of the recording loop len(self.samples) is at most
\* num_samples, whatever keys and clicks the user issues.
C20_TargetBound ==
    rpc \in {"read", "clicks", "hands", "keys", "after_loop", "done"} =>
        Len(samples) <= num_samples

\* some collected sample was not written by the last save: nothing was
\* written yet, or the last written file has fewer rows than were collected
Unsaved ==
    /\ samples # <<>>
    /\ \/ writes = 0
       \/ csv_file # save_samples(samples)

\* C21: when the loop has ended, the recorder writes a file if and only if
\* some sample is unsaved: with a sample collected since the last save the
\* file of all collected samples is written, and with every sample already
\* written by 's' or SAVE and none added since, no further file is written.
C21_AutoSaveIffUnsaved ==
    [][rpc = "after_loop" /\ rpc' = "done" =>
          /\ Unsaved => (writes' = writes + 1 /\ csv_file' = save_samples(samples))
          /\ ~Unsaved => (writes' = writes /\ csv_file' = csv_file)]_vars

\* run r is a run of main, with --model knn or --model rf, that has loaded
\* its data
MainRunLoaded(r) ==
    /\ targs[r].caller = "main"
    /\ tpc[r] # "load_data"

\* C22: a run of main with one model type selected goes from the loaded data
\* through train, evaluate, export_onnx and save_pickle to its end without
\* an exception: no step meets an entry of self.models that is None, and
\* no call is rejected for its arguments.
C22_MainFlowCompletes == \A r \in Runs : MainRunLoaded(r) => terror[r] = "none"

\* the sum of f over keys
RECURSIVE SumOver(_, _)
SumOver(f, keys) ==
    IF keys = {} THEN 0
    ELSE LET k == CHOOSE x \in keys : TRUE
         IN  f[k] + SumOver(f, keys \ {k})

\* the files of the input directory that read_csv accepted
LoadedFiles == {i \in 1..Len(csv_files) : ~read_csv_raises(csv_files[i])}

\* how often a row occurs in the loaded files, and in a written file
InputCopies(row) ==
    SumOver([i \in LoadedFiles |->
                Cardinality({r \in 1..Len(csv_files[i].rows) : csv_files[i].rows[r] = row})],
            LoadedFiles)

OutputCopies(file, row) == Cardinality({r \in 1..Len(file.rows) : file.rows[r] = row})

\* the written file holds the rows of the loaded files, each as often as
\* they do, in some order
SameRows(file) ==
    /\ Len(file.rows) = SumOver([i \in LoadedFiles |-> Len(csv_files[i].rows)], LoadedFiles)
    /\ \A i \in LoadedFiles : \A r \in 1..Len(csv_files[i].rows) :
          OutputCopies(file, csv_files[i].rows[r]) = InputCopies(csv_files[i].rows[r])

\* the label of a row of a written file; a file without the column has none
LabelOf(file, r) ==
    IF "gesture" \in Names(file.header)
    THEN file.rows[r][ColumnAt(file.header, "gesture")]
    ELSE ""

\* the count reported for a label
Reported(label) == IF label \in DOMAIN gesture_counts THEN gesture_counts[label] ELSE 0

\* every row of the written file is counted under its own label
CountedByLabel(file) ==
    /\ SumOver(gesture_counts, DOMAIN gesture_counts) = Len(file.rows)
    /\ \A label \in DOMAIN gesture_counts \cup {LabelOf(file, r) : r \in 1..Len(file.rows)} :
          Reported(label) = Cardinality({r \in 1..Len(file.rows) : LabelOf(file, r) = label})

\* C23: merge_gesture_datasets does not raise, whatever files the input
\* directory holds, and once it has written the output the file holds
\* exactly the rows of the files that loaded, in some order, and the counts
\* reported per gesture count every row of it under its own label.
C23_MergeConservesRows ==
    /\ mpc # "raised"
    /\ mpc \in {"report", "returned"} /\ output_file # <<>> =>
          /\ SameRows(output_file[1])
          /\ CountedByLabel(output_file[1])

\* a call of extract on an array of doubles, followed up to line 54, in a
\* build of either kind
InitDoubles ==
    /\ landmarks \in {AsDoubles(h) : h \in DoubleHands}
    /\ pc = "call"
    /\ normalized = Unset
    /\ scaled = Unset
    /\ inter_joint_dists = Unset
    /\ fingertip_dists = Unset
    /\ finger_angles = Unset
    /\ pinch_dist = Unset
    /\ features = Unset
    /\ error = "none"
    /\ divisions = {}
    /\ fused \in BOOLEAN
    /\ NoCallers
    /\ NoRecorder
    /\ NoGenerator
    /\ NoMerge
    /\ NoTrainer

\* line 48 on doubles
NormalizeTranslationOnDoubles ==
    /\ pc = "call"
    /\ normalized' = normalize_translation_f64(landmarks)
    /\ pc' = "translated"
    /\ UNCHANGED <<landmarks, scaled, inter_joint_dists, fingertip_dists,
                   finger_angles, pinch_dist, features, error, divisions>>
    /\ UNCHANGED <<fused, callVars, recorderVars, generatorVars, mergeVars, trainerVars>>

\* line 51 on doubles
NormalizeScaleOnDoubles ==
    /\ pc = "translated"
    /\ scaled' = normalize_scale_f64(normalized, fused)
    /\ divisions' = divisions \cup scale_divisions_f64(normalized, fused)
    /\ pc' = "scaled"
    /\ UNCHANGED <<landmarks, normalized, inter_joint_dists, fingertip_dists,
                   finger_angles, pinch_dist, features, error>>
    /\ UNCHANGED <<fused, callVars, recorderVars, generatorVars, mergeVars, trainerVars>>

\* line 54 on doubles
ComputeInterJointDistancesOnDoubles ==
    /\ pc = "scaled"
    /\ inter_joint_dists' = compute_inter_joint_distances_f64(scaled, fused)
    /\ pc' = "inter_joint"
    /\ UNCHANGED <<landmarks, normalized, scaled, fingertip_dists,
                   finger_angles, pinch_dist, features, error, divisions>>
    /\ UNCHANGED <<fused, callVars, recorderVars, generatorVars, mergeVars, trainerVars>>

NextDoubles ==
    \/ NormalizeTranslationOnDoubles
    \/ NormalizeScaleOnDoubles
    \/ ComputeInterJointDistancesOnDoubles

SpecDoubles == InitDoubles /\ [][NextDoubles]_vars

\* In real arithmetic feature 8 of a returned call is exactly 1 for a palm
\* of at least 1e-6, and the palm size of the input below it.
PalmFeatureReal ==
    Returned =>
        LET raw == Norm(VSub(landmarks[9], landmarks[0]))
        IN  /\ ~LtEps(raw) => features[8] = One
            /\ LtEps(raw) => features[8] = raw

\* the palm size of the caller's array, as line 78 computes it
RawPalm64 == palm_size_f64(landmarks, fused)

\* 2^-50, above every rounding error the 13 operations from line 78 to
\* line 99 can add up to
Tol64 == F64Round(FALSE, <<1>>, -50)

\* |x - 1.0| <= 2^-50
NearOne64(x) ==
    LET d == F64Sub(x, One64)
    IN  F64Finite(d) /\ ~F64Lt(Tol64, [d EXCEPT !.neg = FALSE])

\* C24: feature 8, the middle finger's wrist-to-MCP distance, is 1 up to
\* the rounding of the doubles (at most 2^-50 from 1.0) for every pose
\* whose palm size (the distance of landmark 9 from landmark 0) is at least
\* 1e-6, and is the palm size of the input itself, not normalized, bit for
\* bit, for every pose whose palm size is below 1e-6.
C24_PalmFeature ==
    pc = "inter_joint" =>
        /\ ~F64Lt(RawPalm64, Eps64) => NearOne64(inter_joint_dists[8])
        /\ F64Lt(RawPalm64, Eps64) => inter_joint_dists[8] = RawPalm64

\* the statement with "equals exactly 1": the double returned is 1.0
C24_PalmFeature_AsStated ==
    pc = "inter_joint" =>
        /\ ~F64Lt(RawPalm64, Eps64) => inter_joint_dists[8] = One64
        /\ F64Lt(RawPalm64, Eps64) => inter_joint_dists[8] = RawPalm64

\* a call on a pose with a palm of at least 1e-6 that returned a feature 8
\* next to 1.0 and not 1.0
C24_Witness ==
    /\ pc = "inter_joint"
    /\ ~F64Lt(RawPalm64, Eps64)
    /\ NearOne64(inter_joint_dists[8])
    /\ inter_joint_dists[8] # One64

====
